---- MODULE Spec2Model ----
(***************************************************************************)
(* Turn handling of the banking assistant: intent routing (classifier or   *)
(* context reuse), slot parsing, the ask/act decision, tool invocation,    *)
(* summarisation, and the chat endpoint that feeds the previous turns back *)
(* as context.                                                             *)
(*                                                                         *)
(* Text is modelled as a sequence of tokens (lower-cased words, numbers,   *)
(* line breaks); the regular expressions and substring tests of the source *)
(* are evaluated on those tokens.                                          *)
(***************************************************************************)
EXTENDS Integers, Sequences, FiniteSets, TLC

VARIABLES
    hist,       \* the session's stored conversation: a sequence of lines
    state,      \* the ConversationState of the turn in progress
    pc,         \* position of the turn: idle, route, parse, decide, ...
    resp,       \* the last response of the chat endpoint
    obs,        \* what the turn in progress did (collaborator calls, stages)
    collected,  \* slot names stored by the turns since the session was cleared
    turns,      \* number of chat requests made so far
    calls,      \* two handle_turn invocations of different sessions, in flight
    shared,     \* the module-level objects every invocation uses
    sid,        \* the sessionId the client sends with its requests
    probe       \* a tool called on its own, twice with the same parameters

vars == <<hist, state, pc, resp, obs, collected, turns, calls, shared, sid, probe>>

-----------------------------------------------------------------------------
(* Bounds *)

MaxTurns == 3

-----------------------------------------------------------------------------
(* Tokens *)

W(s) == [k |-> "w", s |-> s, v |-> 0]          \* a word
N(v) == [k |-> "n", s |-> "", v |-> v]         \* a run of digits on its own
A(s, v) == [k |-> "a", s |-> s, v |-> v]       \* letters followed by digits
NL == [k |-> "nl", s |-> "", v |-> 0]          \* a line break

Words(ws) == [i \in 1..Len(ws) |-> W(ws[i])]

Min(S) == CHOOSE i \in S : \A j \in S : i <= j

\* The keywords a word contains as a substring.
SubWords(s) ==
    CASE s = "loan" -> {"loan"}
      [] s = "loans" -> {"loan"}
      [] s = "credit" -> {"credit"}
      [] s = "credit_card" -> {"credit"}
      [] s = "savings" -> {"savings"}
      [] s = "savings_fd" -> {"savings", "fd"}
      [] s = "fd" -> {"fd"}
      [] s = "fds" -> {"fd"}
      [] s = "forex" -> {"forex"}
      [] s = "forex_travel" -> {"forex"}
      [] s = "currency" -> {"currency"}
      [] s = "policy" -> {"policy"}
      [] s = "policy_faq" -> {"policy", "faq"}
      [] s = "fraud" -> {"fraud"}
      [] s = "fraud_dispute" -> {"fraud", "dispute"}
      [] s = "dispute" -> {"dispute"}
      [] s = "income" -> {"income"}
      [] s = "tenure" -> {"tenure"}
      [] s = "month" -> {"month"}
      [] s = "months" -> {"month"}
      [] s = "year" -> {"year"}
      [] s = "years" -> {"year"}
      [] s = "stolen" -> {"stolen"}
      [] s = "lost" -> {"lost"}
      [] s = "unauthorized" -> {"unauthorized"}
      [] s = "block" -> {"block"}
      [] s = "blocked" -> {"block"}
      [] s = "immediate" -> {"immediate"}
      [] s = "immediately" -> {"immediate"}
      [] OTHER -> {}

\* kw in text (substring search on lower-cased text)
Contains(toks, kw) ==
    \E i \in 1..Len(toks) : toks[i].k = "w" /\ kw \in SubWords(toks[i].s)

HasDigits(t) == t.k \in {"n", "a"}

\* index of the line break ending the line of position i (Len+1 at the end)
LineEnd(toks, i) ==
    IF \E j \in i..Len(toks) : toks[j].k = "nl"
    THEN Min({j \in i..Len(toks) : toks[j].k = "nl"})
    ELSE Len(toks) + 1

-----------------------------------------------------------------------------
(* extract_slots_from_context *)

LoanTypes == {"personal", "home", "car", "education"}
CardTypes == {"travel", "cashback", "premium", "reward", "rewards"}
TenureWords == {"tenure", "duration", "period", "month", "year"}

IsTenureWord(t) ==
    t.k = "w" /\ (SubWords(t.s) \cap TenureWords /= {} \/ t.s \in TenureWords)

\* r'\b(\d{5,})\b' : the first number of five or more digits standing alone
AmountMatches(ctx) == {i \in 1..Len(ctx) : ctx[i].k = "n" /\ ctx[i].v >= 10000}

\* r'\b(personal|home|car|education)(?:\s+loan)?\b'
LoanTypeMatches(ctx) == {i \in 1..Len(ctx) : ctx[i].k = "w" /\ ctx[i].s \in LoanTypes}

\* r'\b(travel|cashback|premium|rewards?)\b'
CardTypeMatches(ctx) == {i \in 1..Len(ctx) : ctx[i].k = "w" /\ ctx[i].s \in CardTypes}

\* digits that follow position i on the same line ('.' does not cross a line break)
DigitsAfter(ctx, i) == {j \in (i+1)..(LineEnd(ctx, i) - 1) : HasDigits(ctx[j])}

\* r'(?:tenure|duration|period|months?|years?).*?(\d+)\s*(months?|years?)?'
TenureStarts1(ctx) ==
    {i \in 1..Len(ctx) : IsTenureWord(ctx[i]) /\ DigitsAfter(ctx, i) /= {}}

\* r'(?:how long|tenure).*?(\d+)'
TenureStarts2(ctx) ==
    {i \in 1..Len(ctx) :
        /\ \/ (ctx[i].k = "w" /\ "tenure" \in SubWords(ctx[i].s))
           \/ (/\ i < Len(ctx)
               /\ ctx[i] = W("how")
               /\ ctx[i+1] = W("long"))
        /\ DigitsAfter(ctx, IF ctx[i] = W("how") THEN i + 1 ELSE i) /= {}}

\* group(2) of the first pattern: a unit word right after the number; the
\* \s* between them also passes line breaks
UnitAt(ctx, j) ==
    LET after == {k \in (j+1)..Len(ctx) : ctx[k].k /= "nl"}
        k == IF after = {} THEN 0 ELSE Min(after)
    IN  IF k /= 0 /\ ctx[k].k = "w" /\ SubWords(ctx[k].s) \cap {"month", "year"} /= {}
        THEN CHOOSE u \in SubWords(ctx[k].s) \cap {"month", "year"} : TRUE
        ELSE ""

\* the (number, unit) pair of tenure_match, or <<>> when neither pattern matches
TenureMatch(ctx) ==
    IF TenureStarts1(ctx) /= {}
    THEN LET i == Min(TenureStarts1(ctx))
             j == Min(DigitsAfter(ctx, i))
         IN  <<ctx[j].v, UnitAt(ctx, j)>>
    ELSE IF TenureStarts2(ctx) /= {}
    THEN LET i == Min(TenureStarts2(ctx))
             j == Min(DigitsAfter(ctx, IF ctx[i] = W("how") THEN i + 1 ELSE i))
         IN  <<ctx[j].v, "">>
    ELSE <<>>

TenureSlot(ctx) ==
    LET m == TenureMatch(ctx) IN
    IF m = <<>> THEN <<>>
    ELSE IF m[2] = "year" THEN [tenure |-> m[1] * 12]
    ELSE IF m[2] = "month" \/ (2 <= m[1] /\ m[1] <= 360) THEN [tenure |-> m[1]]
    ELSE <<>>

\* r'income.*?(\d{5,})'
IncomeMatches(ctx) ==
    {i \in 1..Len(ctx) :
        /\ ctx[i].k = "w" /\ "income" \in SubWords(ctx[i].s)
        /\ \E j \in DigitsAfter(ctx, i) : ctx[j].v >= 10000}

IncomeSlot(ctx) ==
    IF IncomeMatches(ctx) = {} THEN <<>>
    ELSE LET i == Min(IncomeMatches(ctx))
             j == Min({j \in DigitsAfter(ctx, i) : ctx[j].v >= 10000})
         IN  [income |-> ctx[j].v]

extract_slots_from_context(ctx) ==
    (IF AmountMatches(ctx) = {} THEN <<>>
     ELSE [amount |-> ctx[Min(AmountMatches(ctx))].v])
    @@ (IF LoanTypeMatches(ctx) = {} THEN <<>>
        ELSE [loan_type |-> ctx[Min(LoanTypeMatches(ctx))].s])
    @@ TenureSlot(ctx)
    @@ (IF CardTypeMatches(ctx) = {} THEN <<>>
        ELSE [card_type |-> ctx[Min(CardTypeMatches(ctx))].s])
    @@ IncomeSlot(ctx)

-----------------------------------------------------------------------------
(* Python values *)

None == <<>>                 \* None, and also the empty dict, list and string
Truthy(x) == x /= <<>>
Get(d, key, default) == IF key \in DOMAIN d THEN d[key] ELSE default
Contents(xs) == {xs[i] : i \in 1..Len(xs)}

\* [s for s in xs if s not in drop]
RECURSIVE Without(_, _)
Without(xs, drop) ==
    IF xs = <<>> THEN <<>>
    ELSE IF Head(xs) \in drop THEN Without(Tail(xs), drop)
    ELSE <<Head(xs)>> \o Without(Tail(xs), drop)

\* f"{n:,}" : the digit groups of a number, separated by commas
RECURSIVE Group(_)
Group(n) == IF n < 1000 THEN <<N(n)>> ELSE Group(n \div 1000) \o <<N(n % 1000)>>

-----------------------------------------------------------------------------
(* The routing table and the tool registry *)

Intents == {"credit_card", "loan", "savings_fd", "policy_faq", "forex_travel", "fraud_dispute"}

\* Route.metadata of BANKING_ROUTES
RouteMetadata(name) ==
    CASE name = "credit_card" ->
            [category |-> "cards", required_slots |-> <<"income", "card_type">>,
             handler |-> "cards_tool"]
      [] name = "loan" ->
            [category |-> "loans", required_slots |-> <<"loan_type", "amount", "tenure">>,
             handler |-> "loans_tool"]
      [] name = "savings_fd" ->
            [category |-> "savings", required_slots |-> <<"amount", "tenure">>,
             handler |-> "savings_tool"]
      [] name = "policy_faq" ->
            [category |-> "policy", required_slots |-> <<>>,
             handler |-> "policy_rag_tool"]
      [] name = "forex_travel" ->
            [category |-> "forex", required_slots |-> <<"currency", "amount">>,
             handler |-> "forex_tool"]
      [] name = "fraud_dispute" ->
            [category |-> "security", required_slots |-> <<"transaction_id", "description">>,
             handler |-> "fraud_tool"]

TOOL_MAP == {"loans_tool", "cards_tool", "savings_tool", "policy_rag_tool",
             "forex_tool", "fraud_tool"}

-----------------------------------------------------------------------------
(* BankingRouter.route_text *)

\* The semantic router's answer is an input: "raise" (the call fails), NoMatch
\* (no candidate), or the top candidate with its distance in thousandths;
\* found tells whether router.get(name) returns the route.
NoMatch == [name |-> ""]

\* thresholds that take the boundary distance into the band below it
ConfidenceOfInclusive(distance) ==
    IF distance <= 200 THEN "high"
    ELSE IF distance <= 350 THEN "medium"
    ELSE "low"

ConfidenceOf(distance) ==
    IF distance < 200 THEN "high"
    ELSE IF distance < 350 THEN "medium"
    ELSE "low"

route_text(match) ==
    IF match.name = ""
    THEN [intent |-> "unknown", score |-> 0, confidence |-> "none",
          metadata |-> None, topK |-> <<>>]
    ELSE [intent |-> match.name,
          score |-> 1000 - match.distance,
          distance |-> match.distance,
          confidence |-> ConfidenceOf(match.distance),
          metadata |-> IF match.found THEN RouteMetadata(match.name) ELSE None,
          topK |-> <<match.name>>]

-----------------------------------------------------------------------------
(* route_intent_node *)

\* a test that takes every message for a short answer
is_short_answer_always(toks) == TRUE

\* len(text.strip().split()) <= 3 or text.strip().isdigit()
is_short_answer(toks) ==
    Len(toks) <= 3 \/ (Len(toks) = 1 /\ toks[1].k = "n")

\* an inline copy that has drifted from the routing table: the credit card
\* slots in another order, an older handler name for forex
ReuseMetadataDrifted(name) ==
    CASE name = "loan" ->
            [required_slots |-> <<"loan_type", "amount", "tenure">>, handler |-> "loans_tool"]
      [] name = "credit_card" ->
            [required_slots |-> <<"card_type", "income">>, handler |-> "cards_tool"]
      [] name = "savings_fd" ->
            [required_slots |-> <<"amount", "tenure">>, handler |-> "savings_tool"]
      [] name = "forex_travel" ->
            [required_slots |-> <<"currency", "amount">>, handler |-> "travel_tool"]
      [] name = "policy_faq" ->
            [required_slots |-> <<>>, handler |-> "policy_rag_tool"]
      [] name = "fraud_dispute" ->
            [required_slots |-> <<"transaction_id", "description">>, handler |-> "fraud_tool"]

\* the metadata written inline for a reused intent
ReuseMetadata(name) ==
    CASE name = "loan" ->
            [required_slots |-> <<"loan_type", "amount", "tenure">>, handler |-> "loans_tool"]
      [] name = "credit_card" ->
            [required_slots |-> <<"income", "card_type">>, handler |-> "cards_tool"]
      [] name = "savings_fd" ->
            [required_slots |-> <<"amount", "tenure">>, handler |-> "savings_tool"]
      [] name = "forex_travel" ->
            [required_slots |-> <<"currency", "amount">>, handler |-> "forex_tool"]
      [] name = "policy_faq" ->
            [required_slots |-> <<>>, handler |-> "policy_rag_tool"]
      [] name = "fraud_dispute" ->
            [required_slots |-> <<"transaction_id", "description">>, handler |-> "fraud_tool"]

\* the chain with the credit branch tested before the loan branch
ReuseIntentCreditFirst(toks, history) ==
    IF history = <<>> THEN ""
    ELSE LET context == history[1] IN
         IF ~is_short_answer(toks) THEN ""
         ELSE IF Contains(context, "credit") THEN "credit_card"
         ELSE IF Contains(context, "loan") THEN "loan"
         ELSE ""

\* a chain that reuses the intent whose keyword comes first in the context
ReuseIntentFirstMentioned(toks, history) ==
    IF history = <<>> THEN ""
    ELSE LET context == history[1]
             keywords == {"loan", "credit", "savings", "fd", "forex", "currency",
                          "policy", "faq", "fraud", "dispute"}
             hits == {i \in 1..Len(context) :
                         context[i].k = "w" /\ SubWords(context[i].s) \cap keywords /= {}}
             found == SubWords(context[Min(hits)].s)
         IN  IF ~is_short_answer(toks) \/ hits = {} THEN ""
             ELSE IF "loan" \in found THEN "loan"
             ELSE IF "credit" \in found THEN "credit_card"
             ELSE IF "savings" \in found \/ "fd" \in found THEN "savings_fd"
             ELSE IF "forex" \in found \/ "currency" \in found THEN "forex_travel"
             ELSE IF "policy" \in found \/ "faq" \in found THEN "policy_faq"
             ELSE "fraud_dispute"

\* the if/elif chain over the context; "" when no branch is taken
ReuseIntent(toks, history) ==
    IF history = <<>> THEN ""
    ELSE LET context == history[1] IN
         IF ~is_short_answer(toks) THEN ""
         ELSE IF Contains(context, "loan") THEN "loan"
         ELSE IF Contains(context, "credit") THEN "credit_card"
         ELSE IF Contains(context, "savings") \/ Contains(context, "fd") THEN "savings_fd"
         ELSE IF Contains(context, "forex") \/ Contains(context, "currency") THEN "forex_travel"
         ELSE IF Contains(context, "policy") \/ Contains(context, "faq") THEN "policy_faq"
         ELSE IF Contains(context, "fraud") \/ Contains(context, "dispute") THEN "fraud_dispute"
         ELSE ""

\* the state after route_intent_node when the intent is reused from context
RouteReused(st, reuse_intent) ==
    [st EXCEPT !.intent = reuse_intent,
               !.confidence = "high",
               !.router_result = [intent |-> reuse_intent, confidence |-> "high",
                                  score |-> 950, source |-> "context",
                                  metadata |-> ReuseMetadata(reuse_intent)],
               !.pending_slots = Get(ReuseMetadata(reuse_intent), "required_slots", <<>>)]

\* a routing that leaves a slot pending whatever the intent
RouteClassifiedAlwaysPending(st, result) ==
    [st EXCEPT !.intent = result.intent,
               !.confidence = result.confidence,
               !.router_result = result,
               !.pending_slots = Get(result.metadata, "required_slots", <<"amount">>)]

\* the state after route_intent_node when the router was asked
RouteClassified(st, result) ==
    [st EXCEPT !.intent = result.intent,
               !.confidence = result.confidence,
               !.router_result = result,
               !.pending_slots = IF result.intent /= "unknown"
                                 THEN Get(result.metadata, "required_slots", <<>>)
                                 ELSE <<>>]

-----------------------------------------------------------------------------
(* parse_slots_node *)

\* extracted: [ok |-> FALSE] when the chain or json.loads raises, otherwise
\* [ok |-> TRUE, values |-> the fields returned with a non-null value]
\* a parse_slots_node whose except branch gives up the slots asked for
parse_slots_node_dropping_pending(st, extracted) ==
    IF st.pending_slots = <<>> THEN st
    ELSE IF ~extracted.ok THEN [st EXCEPT !.pending_slots = <<>>]
    ELSE [st EXCEPT !.slots = extracted.values @@ st.slots,
                    !.pending_slots = Without(st.pending_slots, DOMAIN extracted.values)]

\* a parse_slots_node that keeps a value it already has for a slot
parse_slots_node_keeping_old(st, extracted) ==
    IF st.pending_slots = <<>> THEN st
    ELSE IF ~extracted.ok THEN st
    ELSE [st EXCEPT !.slots = st.slots @@ extracted.values,
                    !.pending_slots = Without(st.pending_slots, DOMAIN extracted.values)]

parse_slots_node(st, extracted) ==
    IF st.pending_slots = <<>> THEN st
    ELSE IF ~extracted.ok THEN st
    ELSE [st EXCEPT !.slots = extracted.values @@ st.slots,
                    !.pending_slots = Without(st.pending_slots, DOMAIN extracted.values)]

-----------------------------------------------------------------------------
(* decide_next_node and should_continue *)

ClarifyReply ==
    Words(<<"i'm", "not", "sure", "i", "understand", "could", "you", "please",
            "rephrase", "i", "can", "help", "with", "loans", "credit", "cards", "fd",
            "investments", "forex", "policies", "and", "fraud", "reports">>)

slot_questions(slot) ==
    CASE slot = "loan_amount" ->
            Words(<<"what", "loan", "amount", "are", "you", "looking", "for">>)
      [] slot = "loan_type" ->
            Words(<<"what", "type", "of", "loan", "do", "you", "need",
                    "personal", "home", "car", "education">>)
      [] slot = "interest_rate" ->
            Words(<<"what", "interest", "rate", "were", "you", "quoted", "if", "you", "know">>)
      [] slot = "income" ->
            Words(<<"what", "is", "your", "annual", "income">>)
      [] slot = "card_type" ->
            Words(<<"what", "type", "of", "benefits", "are", "you", "interested", "in",
                    "travel", "cashback", "premium">>)
      [] slot = "amount" ->
            Words(<<"what", "amount", "are", "you", "planning", "to", "invest", "need">>)
      [] slot = "tenure" ->
            Words(<<"for", "how", "long", "in", "months">>)
      [] slot = "currency" ->
            Words(<<"which", "currency", "do", "you", "need", "usd", "eur", "gbp", "etc">>)
      [] slot = "transaction_id" ->
            Words(<<"what", "is", "the", "transaction", "id", "or", "say", "immediate",
                    "to", "block", "card", "now">>)
      [] slot = "description" ->
            Words(<<"please", "describe", "the", "issue", "in", "detail">>)
      [] OTHER ->
            Words(<<"could", "you", "provide", slot>>)

\* a decision stage that asks for the last pending slot
decide_next_node_asking_last(st) ==
    IF st.intent = "unknown"
    THEN [st EXCEPT !.reply = ClarifyReply]
    ELSE LET pending == Without(st.pending_slots, DOMAIN st.slots) IN
         IF pending /= <<>>
         THEN [st EXCEPT !.pending_slots = pending,
                         !.reply = slot_questions(pending[Len(pending)])]
         ELSE [st EXCEPT !.pending_slots = pending]

\* a decision stage that does not remove the filled slots from pending
decide_next_node_unfiltered(st) ==
    IF st.intent = "unknown"
    THEN [st EXCEPT !.reply = ClarifyReply]
    ELSE IF st.pending_slots /= <<>>
         THEN [st EXCEPT !.reply = slot_questions(st.pending_slots[1])]
         ELSE st

decide_next_node(st) ==
    IF st.intent = "unknown"
    THEN [st EXCEPT !.reply = ClarifyReply]
    ELSE LET pending == Without(st.pending_slots, DOMAIN st.slots) IN
         IF pending /= <<>>
         THEN [st EXCEPT !.pending_slots = pending,
                         !.reply = slot_questions(pending[1])]
         ELSE [st EXCEPT !.pending_slots = pending]

\* a conditional edge that does not look at pending_slots
should_continue_ignoring_pending(st) ==
    IF st.intent = "unknown" THEN "END"
    ELSE IF Truthy(st.slots) /\ Truthy(st.router_result) THEN "call_tool"
    ELSE "END"

\* an edge that goes back to parse_slots while slots are pending
should_continue_retrying(st) ==
    IF Truthy(st.pending_slots) THEN "parse"
    ELSE IF Truthy(st.tool_result) THEN "summarize"
    ELSE IF Truthy(st.slots) /\ Truthy(st.router_result) THEN "call_tool"
    ELSE "END"

should_continue(st) ==
    IF Truthy(st.pending_slots) THEN "END"
    ELSE IF Truthy(st.tool_result) THEN "summarize"
    ELSE IF Truthy(st.slots) /\ Truthy(st.router_result) THEN "call_tool"
    ELSE "END"

-----------------------------------------------------------------------------
(* The tools.  A result is [summary, bullets, data]; bullets are named by   *)
(* their leading words.                                                     *)

\* x * y for numbers in hundred-millionths, rounded to the nearest unit: the
\* factors are split in base 10000 to stay within 32 bits
FixMul(x, y) ==
    LET a2 == x \div 100000000
        a1 == (x \div 10000) % 10000
        a0 == x % 10000
        b2 == y \div 100000000
        b1 == (y \div 10000) % 10000
        b0 == y % 10000
        low == a1 * b0 + a0 * b1 + (a0 * b0 + 5000) \div 10000
    IN  a2 * b2 * 100000000 + (a2 * b1 + a1 * b2) * 10000
        + a2 * b0 + a1 * b1 + a0 * b2 + (low + 5000) \div 10000

\* (1 + monthly_rate) ** n in hundred-millionths, for the rate 10.5:
\* 1 + monthly_rate = 1 + 10.5/12/100 = 1.00875
RECURSIVE GrowthFactor(_)
GrowthFactor(n) ==
    IF n = 0 THEN 100000000
    ELSE IF n % 2 = 0
    THEN LET half == GrowthFactor(n \div 2) IN FixMul(half, half)
    ELSE FixMul(GrowthFactor(n - 1), 100875000)

\* a / d to the given number of decimal digits: the quotient as an integer
\* and the remainder
RECURSIVE LongDivide(_, _, _)
LongDivide(a, d, digits) ==
    IF digits = 0 THEN [q |-> a \div d, r |-> a % d]
    ELSE LET p == LongDivide(a, d, digits - 1)
         IN  [q |-> p.q * 10 + (p.r * 10) \div d, r |-> (p.r * 10) % d]

\* an instalment with flat interest: principal / n + principal * monthly_rate
EmiFlat(loan_amount, tenure_months) ==
    loan_amount \div tenure_months + (7 * loan_amount) \div 800

\* emi = P * r * (1+r)^n / ((1+r)^n - 1) = P * r * (1 + 1 / ((1+r)^n - 1)),
\* in whole rupees (round(emi), as format_inr prints it); exact for tenures
\* up to 350 months unless emi lies within a paisa of a half rupee
Emi(loan_amount, tenure_months) ==
    LET h == GrowthFactor(tenure_months) - 100000000
        coarse == h >= 200000000
        d == IF coarse THEN h \div 10 ELSE h
        p == LongDivide(7 * loan_amount, d, IF coarse THEN 7 ELSE 8)
        \* 800 * emi
        emi800 == 7 * loan_amount + p.q + (IF 2 * p.r >= d THEN 1 ELSE 0)
    IN  (emi800 + 400) \div 800

\* a calculator that reports the tenure in whole years
calculate_emi_tool_tenure_in_years(p) ==
    LET emi == Emi(p.loan_amount, p.tenure_months) IN
    [summary |-> Words(<<"your", "emi", "will", "be">>) \o Group(emi)
                 \o Words(<<"per", "month", "for">>)
                 \o <<N(p.tenure_months), W("months")>>,
     bullets |-> <<"Monthly EMI", "Total Amount Payable", "Total Interest",
                   "Principal", "Interest Rate", "Tenure">>,
     data |-> [emi |-> emi, principal |-> p.loan_amount,
               rate |-> p.interest_rate, tenure |-> p.tenure_months \div 12]]

\* data.emi is kept in whole rupees; data.total_payment and
\* data.total_interest (emi * n, to the paisa) are not modelled
calculate_emi_tool(p) ==
    IF p.tenure_months = 0
    THEN [summary |-> Words(<<"error", "calculating", "emi", "float", "division", "by", "zero">>),
          bullets |-> <<"Please check your input values and try again.">>,
          data |-> [error |-> Words(<<"float", "division", "by", "zero">>)]]
    ELSE LET emi == Emi(p.loan_amount, p.tenure_months) IN
         [summary |-> Words(<<"your", "emi", "will", "be">>) \o Group(emi)
                      \o Words(<<"per", "month", "for">>)
                      \o <<N(p.tenure_months), W("months")>>,
          bullets |-> <<"Monthly EMI", "Total Amount Payable", "Total Interest",
                        "Principal", "Interest Rate", "Tenure">>,
          data |-> [emi |-> emi, principal |-> p.loan_amount,
                    rate |-> p.interest_rate, tenure |-> p.tenure_months]]

\* CREDIT_CARDS, in the order of eligible_cards after the stable sort by
\* reward_rate, descending
CardsByReward == <<"premium", "travel", "cashback", "entry">>

MinIncome(card) ==
    CASE card = "travel" -> 500000
      [] card = "cashback" -> 300000
      [] card = "premium" -> 1500000
      [] card = "entry" -> 200000

CardName(card) ==
    CASE card = "travel" -> Words(<<"demobank", "travel", "elite">>)
      [] card = "cashback" -> Words(<<"demobank", "cashback", "plus">>)
      [] card = "premium" -> Words(<<"demobank", "platinum", "reserve">>)
      [] card = "entry" -> Words(<<"demobank", "silver", "card">>)

RewardRate(card) ==
    CASE card = "travel" -> 5
      [] card = "cashback" -> 5
      [] card = "premium" -> 10
      [] card = "entry" -> 1

\* a tool that gives the preferred card whatever the income
recommend_card_tool_as_preferred(p) ==
    LET benefit_type ==
            IF p.preferred_benefits \in {"travel", "cashback", "premium", "general"}
            THEN p.preferred_benefits ELSE "general"
        eligible_cards == Without(CardsByReward,
                                  {c \in Contents(CardsByReward) : p.income < MinIncome(c)})
    IN  IF eligible_cards = <<>>
        THEN [summary |-> Words(<<"based", "on", "your", "income", "we", "recommend",
                                  "building", "your", "credit", "profile", "first">>),
              bullets |-> <<"Consider a secured credit card to start",
                            "Minimum income required", "You can reapply">>,
              data |-> [eligible |-> FALSE, cards |-> <<>>]]
        ELSE LET card_type ==
                     IF benefit_type /= "general"
                     THEN benefit_type ELSE eligible_cards[1]
             IN  [summary |-> Words(<<"based", "on", "your", "income", "of">>)
                              \o Group(p.income)
                              \o Words(<<"we", "recommend", "the">>) \o CardName(card_type),
                  bullets |-> <<"Recommended", "Annual Fee", "Reward Rate", "Benefits">>,
                  data |-> [recommended_card |-> card_type, all_eligible |-> eligible_cards]]

recommend_card_tool(p) ==
    LET benefit_type ==
            IF p.preferred_benefits \in {"travel", "cashback", "premium", "general"}
            THEN p.preferred_benefits ELSE "general"
        eligible_cards == Without(CardsByReward,
                                  {c \in Contents(CardsByReward) : p.income < MinIncome(c)})
    IN  IF eligible_cards = <<>>
        THEN [summary |-> Words(<<"based", "on", "your", "income", "we", "recommend",
                                  "building", "your", "credit", "profile", "first">>),
              bullets |-> <<"Consider a secured credit card to start",
                            "Minimum income required", "You can reapply">>,
              data |-> [eligible |-> FALSE, cards |-> <<>>]]
        ELSE LET card_type ==
                     IF benefit_type /= "general" /\ p.income >= MinIncome(benefit_type)
                     THEN benefit_type ELSE eligible_cards[1]
             IN  [summary |-> Words(<<"based", "on", "your", "income", "of">>)
                              \o Group(p.income)
                              \o Words(<<"we", "recommend", "the">>) \o CardName(card_type),
                  bullets |-> <<"Recommended", "Annual Fee", "Reward Rate", "Benefits">>,
                  data |-> [recommended_card |-> card_type, all_eligible |-> eligible_cards]]

suggest_fd_ladder_tool(p) ==
    IF p.total_amount = 0
    THEN [summary |-> Words(<<"error", "creating", "fd", "ladder", "float", "division",
                              "by", "zero">>),
          bullets |-> <<"Please check your input values and try again.">>,
          data |-> [error |-> Words(<<"float", "division", "by", "zero">>)]]
    ELSE LET splits == IF p.tenure_months <= 12 THEN <<6, 6, 12>> ELSE <<12, 24, 36, 60>> IN
         [summary |-> <<W("invest")>> \o Group(p.total_amount)
                      \o <<W("across"), N(Len(splits))>>
                      \o Words(<<"fds", "for", "optimal", "returns", "and", "liquidity">>),
          bullets |-> <<"Total Investment", "Total Interest Earned", "Total Maturity Value",
                        "Effective Return", "FD Ladder Breakdown", "Benefits of FD Ladder">>,
          data |-> [total_investment |-> p.total_amount, ladder |-> splits]]

\* FOREX_RATES, in hundredths of a rupee
ForexCurrencies == <<"USD", "EUR", "GBP", "AED", "SGD", "AUD", "CAD", "CHF">>

ForexRate(currency) ==
    CASE currency = "USD" -> 8325
      [] currency = "EUR" -> 9050
      [] currency = "GBP" -> 10575
      [] currency = "AED" -> 2265
      [] currency = "SGD" -> 6240
      [] currency = "AUD" -> 5430
      [] currency = "CAD" -> 6120
      [] currency = "CHF" -> 9480

\* str.upper() and str.lower() on the currency codes the model uses
Upper(c) ==
    CASE c = "usd" -> "USD" [] c = "eur" -> "EUR" [] c = "gbp" -> "GBP"
      [] c = "aed" -> "AED" [] c = "sgd" -> "SGD" [] c = "aud" -> "AUD"
      [] c = "cad" -> "CAD" [] c = "chf" -> "CHF" [] c = "xyz" -> "XYZ" [] OTHER -> c
Lower(c) ==
    CASE c = "USD" -> "usd" [] c = "EUR" -> "eur" [] c = "GBP" -> "gbp"
      [] c = "AED" -> "aed" [] c = "SGD" -> "sgd" [] c = "AUD" -> "aud"
      [] c = "CAD" -> "cad" [] c = "CHF" -> "chf" [] c = "XYZ" -> "xyz" [] OTHER -> c

\* a lookup of the currency code as given, without currency.upper()
get_forex_rates_tool_case_sensitive(p, now) ==
    IF p.currency \notin Contents(ForexCurrencies)
    THEN [summary |-> <<W("currency"), W(Lower(p.currency))>>
                      \o Words(<<"not", "available", "we", "support", "usd", "eur", "gbp",
                                 "aed", "sgd", "aud", "cad", "chf">>),
          bullets |-> <<"Available currencies">>,
          data |-> [error |-> <<W("unsupported_currency")>>]]
    ELSE [summary |-> <<W("for")>> \o Group(p.amount),
          bullets |-> <<"Today's Rate (Cash)">>,
          data |-> [currency |-> p.currency, inr_amount |-> p.amount,
                    exchange_rate |-> ForexRate(p.currency), last_updated |-> now]]

\* now is the minute datetime.now() falls in
get_forex_rates_tool(p, now) ==
    LET currency == Upper(p.currency) IN
    IF currency \notin Contents(ForexCurrencies)
    THEN [summary |-> <<W("currency"), W(Lower(currency))>>
                      \o Words(<<"not", "available", "we", "support", "usd", "eur", "gbp",
                                 "aed", "sgd", "aud", "cad", "chf">>),
          bullets |-> <<"Available currencies">>,
          data |-> [error |-> <<W("unsupported_currency")>>]]
    ELSE LET rate == ForexRate(currency)
             \* foreign_amount = amount / rate, in hundredths, rounded
             whole == (p.amount * 100) \div rate
             rest == (p.amount * 100) % rate
             cents == whole * 100 + (2 * rest * 100 + rate) \div (2 * rate)
             \* card_rate = rate * 1.02, in ten-thousandths
             card_rate == rate * 102
             \* card_amount = amount / card_rate, in hundredths, rounded
             card_high == ((p.amount * 100) \div card_rate) * 100
             card_low == ((p.amount * 100) % card_rate) * 100
             card_whole == card_high + card_low \div card_rate
             card_rest == card_low % card_rate
             card_cents == card_whole * 100
                           + (2 * card_rest * 100 + card_rate) \div (2 * card_rate)
         IN  [summary |-> <<W("for")>> \o Group(p.amount)
                          \o Words(<<"you'll", "get", "approximately">>)
                          \o Group(cents \div 100) \o <<N(cents % 100), W(Lower(currency))>>
                          \o Words(<<"at", "today's", "rate", "of">>)
                          \o <<N(rate \div 100), N(rate % 100)>>
                          \o <<W("per"), W(Lower(currency))>>,
              bullets |-> <<"Today's Rate (Cash)", "Forex Card Rate", "Services Available",
                            "Documents Required", "Visit any branch or order online">>,
              data |-> [currency |-> currency, inr_amount |-> p.amount,
                        foreign_amount |-> cents, exchange_rate |-> rate,
                        card_rate |-> (card_rate + 50) \div 100,
                        card_amount |-> card_cents,
                        last_updated |-> now]]

\* any(keyword in description.lower() for keyword in urgent_keywords)
UrgentKeywords == {"stolen", "lost", "unauthorized", "fraud", "block", "immediate"}
IsUrgent(description) == \E kw \in UrgentKeywords : Contains(description, kw)

\* case_number is the value random.randint(100000, 999999) returns, now the
\* time datetime.now() returns
handle_fraud_dispute_tool(p, case_number, now) ==
    LET is_urgent == IsUrgent(p.description)
        case_id == A("case", case_number)
    IN  [summary |->
            (IF is_urgent
             THEN Words(<<"urgent", "card", "blocked", "immediately">>)
             ELSE Words(<<"dispute", "case", "registered">>))
            \o Words(<<"your", "case", "id", "is">>) \o <<case_id>>
            \o Words(<<"expected", "response", "time">>)
            \o (IF is_urgent
                THEN Words(<<"immediate", "card", "blocked", "within">>)
                     \o <<N(5), W("minutes")>>
                ELSE <<N(24), N(48), W("hours")>>),
         bullets |-> IF is_urgent
                     THEN <<"URGENT CASE REGISTERED", "Case ID", "Status: Card blocked immediately",
                            "Immediate Actions Taken", "Next Steps", "Refund Process",
                            "Emergency", "Track status">>
                     ELSE <<"Dispute Case Registered", "Case ID", "Transaction",
                            "Investigation Process", "What You Can Do",
                            "Required Documents", "Contact", "Updates", "Track">>,
         data |-> [case_id |-> case_id,
                   transaction_id |-> p.transaction_id,
                   priority |-> IF is_urgent THEN "HIGH" ELSE "NORMAL",
                   status |-> IF is_urgent THEN "CARD_BLOCKED" ELSE "UNDER_REVIEW",
                   created_at |-> now,
                   is_urgent |-> is_urgent]]

\* POLICY_KB in declaration order: the words of key.split() and of
\* question.lower().split(), and the answer
PolicyKeys == <<"branch timings", "password reset", "kyc documents",
                "account closure", "service charges", "privacy policy">>

PolicyWords(key) ==
    CASE key = "branch timings" ->
            {"branch", "timings", "what", "are", "your", "timings?"}
      [] key = "password reset" ->
            {"password", "reset", "how", "do", "i", "my", "password?"}
      [] key = "kyc documents" ->
            {"kyc", "documents", "what", "do", "i", "need", "for", "kyc?"}
      [] key = "account closure" ->
            {"account", "closure", "how", "to", "close", "my", "account?"}
      [] key = "service charges" ->
            {"service", "charges", "what", "are", "the", "charges?"}
      [] key = "privacy policy" ->
            {"privacy", "policy", "tell", "me", "about", "your"}

PolicyAnswer(key) ==
    CASE key = "branch timings" ->
            Words(<<"our", "branches", "are", "open", "monday", "to", "friday", "from">>)
            \o <<N(10), N(0), W("am"), W("to"), N(4), N(0), W("pm")>>
            \o Words(<<"and", "saturday", "from">>)
            \o <<N(10), N(0), W("am"), W("to"), N(1), N(0), W("pm")>>
            \o Words(<<"we", "are", "closed", "on", "sundays", "and", "public", "holidays">>)
      [] key = "password reset" ->
            Words(<<"to", "reset", "your", "password">>)
            \o <<N(1)>> \o Words(<<"visit", "the", "login", "page", "and", "click",
                                   "forgot", "password">>)
            \o <<N(2)>> \o Words(<<"enter", "your", "registered", "email", "phone">>)
            \o <<N(3)>> \o Words(<<"verify", "otp">>)
            \o <<N(4)>> \o Words(<<"set", "new", "password", "password", "must", "be">>)
            \o <<N(8), N(16)>>
            \o Words(<<"characters", "with", "at", "least", "one", "uppercase", "one",
                       "number", "and", "one", "special", "character">>)
      [] key = "kyc documents" ->
            Words(<<"for", "kyc", "verification", "please", "provide">>)
            \o <<N(1)>> \o Words(<<"identity", "proof", "aadhaar", "pan", "passport",
                                   "driving", "license">>)
            \o <<N(2)>> \o Words(<<"address", "proof", "aadhaar", "utility", "bill", "passport">>)
            \o <<N(3)>> \o Words(<<"recent", "photograph", "all", "documents", "should",
                                   "be", "self", "attested", "copies">>)
      [] key = "account closure" ->
            Words(<<"to", "close", "your", "account">>)
            \o <<N(1)>> \o Words(<<"visit", "your", "home", "branch">>)
            \o <<N(2)>> \o Words(<<"submit", "account", "closure", "form", "with",
                                   "passbook", "checkbook">>)
            \o <<N(3)>> \o Words(<<"clear", "any", "pending", "dues">>)
            \o <<N(4)>> \o Words(<<"balance", "will", "be", "transferred", "via", "check",
                                   "neft", "processing", "takes">>)
            \o <<N(7), N(10)>> \o Words(<<"business", "days">>)
      [] key = "service charges" ->
            Words(<<"service", "charges", "vary", "by", "account", "type", "savings", "account">>)
            \o <<N(200)>> \o Words(<<"quarter", "if", "balance", "minimum", "atm", "transactions">>)
            \o <<N(5)>> \o Words(<<"free", "month">>)
            \o <<N(20)>> \o Words(<<"thereafter", "neft", "free", "rtgs">>)
            \o <<N(25), N(50)>> \o Words(<<"based", "on", "amount", "cheque", "book">>)
            \o <<N(2)>> \o Words(<<"leaf">>)
      [] key = "privacy policy" ->
            Words(<<"we", "protect", "your", "data", "with", "bank", "grade", "encryption",
                    "we", "never", "share", "personal", "information", "with", "third",
                    "parties", "without", "consent", "your", "data", "is", "used", "only",
                    "for", "banking", "services", "you", "can", "request", "data",
                    "deletion", "anytime", "full", "policy", "at", "demobank", "com",
                    "privacy">>)

\* set(query_lower.split())
QueryWords(query) == {query[i].s : i \in {j \in 1..Len(query) : query[j].k = "w"}}

Overlap(query, key) == Cardinality(QueryWords(query) \cap PolicyWords(key))

\* the key of best_match after the loop ("" when best_match stays None):
\* the first key, in declaration order, with the largest positive overlap
BestMatch(query) ==
    LET scored == {i \in 1..Len(PolicyKeys) : Overlap(query, PolicyKeys[i]) > 0}
        best == {i \in scored :
                    \A j \in scored : Overlap(query, PolicyKeys[j]) <= Overlap(query, PolicyKeys[i])}
    IN  IF scored = {} THEN "" ELSE PolicyKeys[Min(best)]

search_policy_tool(p) ==
    LET key == BestMatch(p.query) IN
    IF key /= ""
    THEN [summary |-> PolicyAnswer(key),
          bullets |-> <<"Question", "", "For more information", "Customer Care",
                        "Visit", "Chat with us on the app">>,
          data |-> [matched_question |-> key,
                    confidence |-> IF Overlap(p.query, key) > 2 THEN "high" ELSE "medium"]]
    ELSE [summary |-> Words(<<"i", "couldn't", "find", "a", "specific", "policy", "answer",
                              "let", "me", "connect", "you", "with", "customer", "support">>),
          bullets |-> <<"Call", "Email", "Help Center", "Visit nearest branch">>,
          data |-> [matched |-> FALSE]]

-----------------------------------------------------------------------------
(* The user messages of the model, and what the collaborators may answer *)

Texts == {"branch", "loan", "500000", "60", "travel", "stolen", "usd"}

\* further messages, used by the slot-filling dialogues
Answers == {"personal", "txn123", "describe", "card", "deposit", "1000", "loanfull"}

TextTokens(t) ==
    CASE t = "branch" -> Words(<<"what", "are", "your", "branch", "timings">>)
      [] t = "loan" -> Words(<<"i", "need", "a", "loan">>)
      [] t = "loanfull" -> Words(<<"i", "need", "a", "personal", "loan", "of">>)
                           \o <<N(500000), W("for"), N(60), W("months")>>
      [] t = "personal" -> Words(<<"personal">>)
      [] t = "500000" -> <<N(500000)>>
      [] t = "60" -> <<N(60)>>
      [] t = "card" -> Words(<<"i", "want", "a", "credit", "card">>)
      [] t = "deposit" -> Words(<<"open", "a", "fixed", "deposit">>)
      [] t = "travel" -> Words(<<"travel">>)
      [] t = "stolen" -> Words(<<"my", "card", "was", "stolen", "transaction">>)
                         \o <<A("txn123", 123)>>
      [] t = "txn123" -> <<A("txn123", 123)>>
      [] t = "describe" -> Words(<<"someone", "used", "my", "card">>)
      [] t = "stole" -> Words(<<"someone", "stole", "my", "card">>)
      [] t = "usd" -> Words(<<"usd">>)
      [] t = "1000" -> <<N(1000)>>
      [] OTHER -> <<>>

\* the route names the semantic router may rank first for a message
Labels(t) ==
    CASE t = "branch" -> {"policy_faq"}
      [] t = "loan" -> {"loan"}
      [] t = "loanfull" -> {"loan"}
      [] t = "personal" -> {"loan"}
      [] t = "card" -> {"credit_card"}
      [] t = "deposit" -> {"savings_fd"}
      [] t = "travel" -> {"credit_card"}
      [] t = "stolen" -> {"fraud_dispute"}
      [] t = "describe" -> {"fraud_dispute"}
      [] t = "usd" -> {"forex_travel"}
      [] OTHER -> {}

Matches(t) ==
    {NoMatch}
    \cup [name : Labels(t), distance : {150}, found : {TRUE}]
    \cup [name : Labels(t), distance : {350}, found : {FALSE}]

\* the fields the slot extractor may return with a value for a message
Says(t) ==
    CASE t = "personal" -> [loan_type |-> "personal"]
      [] t = "loanfull" -> [loan_type |-> "personal", amount |-> 500000, tenure |-> 60]
      [] t = "500000" -> [amount |-> 500000, income |-> 500000]
      [] t = "60" -> [tenure |-> 60, amount |-> 60]
      [] t = "travel" -> [card_type |-> "travel"]
      [] t = "stolen" -> [description |-> Words(<<"my", "card", "was", "stolen">>),
                          transaction_id |-> "TXN123"]
      [] t = "txn123" -> [transaction_id |-> "TXN123"]
      [] t = "describe" -> [description |-> Words(<<"someone", "used", "my", "card">>)]
      [] t = "usd" -> [currency |-> "USD"]
      [] t = "1000" -> [amount |-> 1000]
      [] OTHER -> <<>>

Extractions(t) ==
    {[ok |-> FALSE]} \cup
    {[ok |-> TRUE, values |-> [k \in K |-> Says(t)[k]]] : K \in SUBSET DOMAIN Says(t)}

\* what tool.invoke does: it returns, or raises with some message
ToolErrors == {Words(<<"validation", "error">>)}
CaseNumbers == {100000, 999999}

\* two moments at which datetime.now() may be read
Clock == {1, 2}

-----------------------------------------------------------------------------
(* call_tool_node and summarize_node *)

SupportReply ==
    Words(<<"i", "found", "your", "intent", "but", "couldn't", "process", "it",
            "please", "contact", "support">>)

HandlerOf(st) == Get(st.router_result.metadata, "handler", "")

ToolRuns(st) == HandlerOf(st) /= "" /\ HandlerOf(st) \in TOOL_MAP

tool_params(st) ==
    LET handler_name == HandlerOf(st) IN
    CASE handler_name = "loans_tool" ->
            [loan_amount |-> Get(st.slots, "amount", 500000),
             interest_rate |-> Get(st.slots, "interest_rate", 105),
             tenure_months |-> Get(st.slots, "tenure", 60)]
      [] handler_name = "cards_tool" ->
            [income |-> Get(st.slots, "income", 500000),
             preferred_benefits |-> Get(st.slots, "card_type", "general")]
      [] handler_name = "savings_tool" ->
            [total_amount |-> Get(st.slots, "amount", 100000),
             tenure_months |-> Get(st.slots, "tenure", 12)]
      [] handler_name = "forex_tool" ->
            [currency |-> Get(st.slots, "currency", "USD"),
             amount |-> Get(st.slots, "amount", 50000)]
      [] handler_name = "fraud_tool" ->
            [transaction_id |-> Get(st.slots, "transaction_id", "immediate"),
             description |-> TextTokens(st.text)]
      [] handler_name = "policy_rag_tool" ->
            [query |-> TextTokens(st.text)]

InvokeTool(handler_name, p, case_number, now) ==
    CASE handler_name = "loans_tool" -> calculate_emi_tool(p)
      [] handler_name = "cards_tool" -> recommend_card_tool(p)
      [] handler_name = "savings_tool" -> suggest_fd_ladder_tool(p)
      [] handler_name = "forex_tool" -> get_forex_rates_tool(p, now)
      [] handler_name = "fraud_tool" -> handle_fraud_dispute_tool(p, case_number, now)
      [] handler_name = "policy_rag_tool" -> search_policy_tool(p)

\* an error result with no remedial bullet and no data.error
ErrorResultWithoutData(msg) ==
    [summary |-> Words(<<"sorry", "i", "encountered", "an", "error">>) \o msg,
     bullets |-> <<>>,
     data |-> [error |-> <<>>]]

\* the result of the except branch
ErrorResult(msg) ==
    [summary |-> Words(<<"sorry", "i", "encountered", "an", "error">>) \o msg,
     bullets |-> <<"Please try again or contact support.">>,
     data |-> [error |-> msg]]

\* outcome: [raises |-> TRUE, msg] when tool.invoke raises, otherwise
\* [raises |-> FALSE, case_number, now]
call_tool_node(st, outcome) ==
    IF ~ToolRuns(st)
    THEN [st EXCEPT !.reply = SupportReply]
    ELSE IF outcome.raises
    THEN [st EXCEPT !.tool_result = ErrorResult(outcome.msg)]
    ELSE [st EXCEPT !.tool_result =
                        InvokeTool(HandlerOf(st), tool_params(st), outcome.case_number,
                                   outcome.now)]

\* a summarize_node that wraps a proposal without testing for a tool result
summarize_node_unguarded(st) ==
    [st EXCEPT !.reply = Get(st.tool_result, "summary",
                             Words(<<"here's", "what", "i", "found">>)),
               !.proposal = [bullets |-> Get(st.tool_result, "bullets", <<>>),
                             data |-> Get(st.tool_result, "data", <<>>)]]

summarize_node(st) ==
    IF Truthy(st.tool_result)
    THEN [st EXCEPT !.reply = Get(st.tool_result, "summary",
                                  Words(<<"here's", "what", "i", "found">>)),
                    !.proposal = [bullets |-> Get(st.tool_result, "bullets", <<>>),
                                  data |-> Get(st.tool_result, "data", <<>>)]]
    ELSE st

-----------------------------------------------------------------------------
(* The conversation store (memory.history) *)

ContextLimit == 6

\* one stored message as a line of the context text
Line(m) ==
    <<W(m.role)>> \o m.text
    \o (IF m.role = "assistant" THEN <<W("intent"), W(m.intent)>> ELSE <<>>)
    \o <<NL>>

RECURSIVE Lines(_)
Lines(ms) == IF ms = <<>> THEN <<>> ELSE Line(Head(ms)) \o Lines(Tail(ms))

LastN(ms, n) == IF Len(ms) <= n THEN ms ELSE SubSeq(ms, Len(ms) - n + 1, Len(ms))

\* get_context(session_id, limit): None when nothing is stored
get_context(ms, limit) == IF ms = <<>> THEN None ELSE Lines(LastN(ms, limit))

\* add_message(session_id, role, text, intent, score)
add_message(ms, role, text, intent, score) ==
    LastN(Append(ms, [role |-> role, text |-> text, intent |-> intent, score |-> score]),
          ContextLimit)

-----------------------------------------------------------------------------
(* handle_turn *)

InitialState(text, context) ==
    [text |-> text,
     intent |-> "",
     confidence |-> "",
     router_result |-> None,
     slots |-> IF Truthy(context) THEN extract_slots_from_context(context) ELSE <<>>,
     pending_slots |-> <<>>,
     reply |-> <<>>,
     proposal |-> None,
     tool_result |-> None,
     history |-> IF Truthy(context) THEN <<context>> ELSE <<>>]

\* the dict handle_turn returns
Response(final_state) ==
    [reply |-> final_state.reply,
     pending |-> final_state.pending_slots,
     router |-> [intent |-> final_state.intent,
                 confidence |-> final_state.confidence,
                 score |-> IF Truthy(final_state.router_result)
                           THEN final_state.router_result.score ELSE -1],
     proposal |-> final_state.proposal]

NoTurn == InitialState("", None)
NoObs == [classifier |-> 0, extractor |-> 0, extractor_failed |-> FALSE, tool |-> 0,
          tool_error |-> <<>>, stages |-> <<>>]
NoResponse == [status |-> 0]

-----------------------------------------------------------------------------
(* Actions *)

\* no tool picked yet
NoProbe == [handler |-> "", params |-> <<>>, results |-> <<>>]

\* the two concurrent callers
Sessions == {"A", "B"}

\* an invocation that has not been made yet
NoCall ==
    [pc |-> "out", state |-> NoTurn, match |-> NoMatch, extracted |-> [ok |-> FALSE],
     outcome |-> [raises |-> FALSE, case_number |-> 0, now |-> 0], pending_ref |-> "local",
     overlapped |-> FALSE, resp |-> NoResponse]

\* _graph and _router_instance before the first request, and the routes' metadata
SharedInit ==
    [graph |-> "none", router |-> "none", routes |-> [i \in Intents |-> RouteMetadata(i)]]

Init ==
    /\ hist = <<>>
    /\ state = NoTurn
    /\ pc = "idle"
    /\ resp = NoResponse
    /\ obs = NoObs
    /\ collected = {}
    /\ turns = 0
    /\ calls = [c \in Sessions |-> NoCall]
    /\ shared = SharedInit
    /\ sid = "s1"
    /\ probe = NoProbe

\* POST /chat: read the context, then enter handle_turn
Chat(text) ==
    /\ pc = "idle"
    /\ turns < MaxTurns
    /\ turns' = turns + 1
    /\ state' = InitialState(text, get_context(hist, ContextLimit))
    /\ obs' = NoObs
    /\ resp' = NoResponse
    /\ pc' = "route"
    /\ UNCHANGED <<hist, collected>>

\* route_intent_node, intent reused from the context: the router is not called
RouteReuse ==
    /\ pc = "route"
    /\ ReuseIntent(TextTokens(state.text), state.history) /= ""
    /\ state' = RouteReused(state, ReuseIntent(TextTokens(state.text), state.history))
    /\ obs' = [obs EXCEPT !.stages = Append(@, "route_intent")]
    /\ pc' = "parse"
    /\ UNCHANGED <<hist, resp, collected, turns>>

\* route_intent_node, the router answers
RouteClassify(match) ==
    /\ pc = "route"
    /\ ReuseIntent(TextTokens(state.text), state.history) = ""
    /\ state' = RouteClassified(state, route_text(match))
    /\ obs' = [obs EXCEPT !.classifier = @ + 1, !.stages = Append(@, "route_intent")]
    /\ pc' = "parse"
    /\ UNCHANGED <<hist, resp, collected, turns>>

\* route_intent_node, the call to the router raises: nothing catches it
\* before the chat endpoint
RouteRaise ==
    /\ pc = "route"
    /\ ReuseIntent(TextTokens(state.text), state.history) = ""
    /\ obs' = [obs EXCEPT !.classifier = @ + 1, !.stages = Append(@, "route_intent")]
    /\ pc' = "raised"
    /\ UNCHANGED <<hist, state, resp, collected, turns>>

\* parse_slots_node with nothing pending: the extractor is not called
ParseSkip ==
    /\ pc = "parse"
    /\ state.pending_slots = <<>>
    /\ obs' = [obs EXCEPT !.stages = Append(@, "parse_slots")]
    /\ pc' = "decide"
    /\ UNCHANGED <<hist, state, resp, collected, turns>>

ParseSlots(extracted) ==
    /\ pc = "parse"
    /\ state.pending_slots /= <<>>
    /\ state' = parse_slots_node(state, extracted)
    /\ obs' = [obs EXCEPT !.extractor = @ + 1, !.extractor_failed = ~extracted.ok,
                          !.stages = Append(@, "parse_slots")]
    /\ pc' = "decide"
    /\ UNCHANGED <<hist, resp, collected, turns>>

\* decide_next_node and the conditional edge
DecideNext ==
    /\ pc = "decide"
    /\ state' = decide_next_node(state)
    /\ obs' = [obs EXCEPT !.stages = Append(@, "decide_next")]
    /\ pc' = should_continue(state')
    /\ UNCHANGED <<hist, resp, collected, turns>>

ToolOutcomes(st) ==
    IF ~ToolRuns(st) THEN {[raises |-> FALSE, case_number |-> 0, now |-> 0]}
    ELSE [raises : {TRUE}, msg : ToolErrors]
         \cup [raises : {FALSE},
               case_number : IF HandlerOf(st) = "fraud_tool" THEN CaseNumbers ELSE {0},
               now : IF HandlerOf(st) \in {"fraud_tool", "forex_tool"} THEN Clock ELSE {0}]

CallTool ==
    /\ pc = "call_tool"
    /\ \E outcome \in ToolOutcomes(state) :
          /\ state' = call_tool_node(state, outcome)
          /\ obs' = [obs EXCEPT !.tool = IF ToolRuns(state) THEN @ + 1 ELSE @,
                                !.tool_error = IF outcome.raises THEN outcome.msg ELSE @,
                                !.stages = Append(@, "call_tool")]
    /\ pc' = "summarize"
    /\ UNCHANGED <<hist, resp, collected, turns>>

Summarize ==
    /\ pc = "summarize"
    /\ state' = summarize_node(state)
    /\ obs' = [obs EXCEPT !.stages = Append(@, "summarize")]
    /\ pc' = "END"
    /\ UNCHANGED <<hist, resp, collected, turns>>

\* an endpoint that stores the reply before the user message
RespondKeepingReplyFirst(keep) ==
    /\ pc = "END"
    /\ LET result == Response(state) IN
       /\ hist' = LastN(add_message(add_message(hist, "assistant", result.reply,
                                                result.router.intent, result.router.score),
                                    "user", TextTokens(state.text), "unknown", 0),
                        keep)
       /\ resp' = [status |-> 200, reply |-> result.reply, pending |-> result.pending,
                   router |-> result.router, proposal |-> result.proposal,
                   showFeedback |-> Truthy(result.proposal)]
    /\ collected' = collected \cup DOMAIN state.slots
    /\ state' = NoTurn
    /\ obs' = NoObs
    /\ pc' = "idle"
    /\ UNCHANGED turns

\* handle_turn returns; the chat endpoint stores the two messages and answers.
\* keep: how many of the stored messages the model retains
RespondKeeping(keep) ==
    /\ pc = "END"
    /\ LET result == Response(state) IN
       /\ hist' = LastN(add_message(add_message(hist, "user", TextTokens(state.text),
                                                "unknown", 0),
                                    "assistant", result.reply, result.router.intent,
                                    result.router.score),
                        keep)
       /\ resp' = [status |-> 200, reply |-> result.reply, pending |-> result.pending,
                   router |-> result.router, proposal |-> result.proposal,
                   showFeedback |-> Truthy(result.proposal)]
    /\ collected' = collected \cup DOMAIN state.slots
    /\ state' = NoTurn
    /\ obs' = NoObs
    /\ pc' = "idle"
    /\ UNCHANGED turns

\* the store keeps every message
Respond == RespondKeeping(Len(hist) + 2)

\* an endpoint that stores the user message before it reports the error
FailKeepingTheQuestion ==
    /\ pc = "raised"
    /\ resp' = [status |-> 500]
    /\ hist' = add_message(hist, "user", TextTokens(state.text), "unknown", 0)
    /\ state' = NoTurn
    /\ obs' = NoObs
    /\ pc' = "idle"
    /\ UNCHANGED <<collected, turns>>

\* an exception left handle_turn: HTTP 500, nothing is stored
Fail ==
    /\ pc = "raised"
    /\ resp' = [status |-> 500]
    /\ state' = NoTurn
    /\ obs' = NoObs
    /\ pc' = "idle"
    /\ UNCHANGED <<hist, collected, turns>>

\* the session ids of the model: a plain one and one sent with blanks around it
SessionIds == {"s1", " s1 "}

\* str.strip on the session ids of the model
Strip(id) == IF id = " s1 " THEN "s1" ELSE id

\* the conversation stored under the key the chat endpoint uses, after
\* clear_conversation(key)
clear_conversation(ms, key) == IF key = sid THEN <<>> ELSE ms

\* POST /chat/feedback: the chat endpoint stores under request.sessionId as
\* sent, the feedback endpoint clears request.sessionId.strip()
Feedback(helpful) ==
    /\ pc = "idle"
    /\ hist /= <<>>
    /\ hist' = IF helpful THEN clear_conversation(hist, Strip(sid)) ELSE hist
    /\ collected' = IF hist' = <<>> THEN {} ELSE collected
    /\ resp' = [status |-> 200, ok |-> TRUE, cleared |-> helpful]
    /\ UNCHANGED <<state, pc, obs, turns>>

Next ==
    /\ \/ \E text \in Texts : Chat(text)
       \/ RouteReuse
       \/ \E match \in Matches(state.text) : RouteClassify(match)
       \/ RouteRaise
       \/ ParseSkip
       \/ \E extracted \in Extractions(state.text) : ParseSlots(extracted)
       \/ DecideNext
       \/ CallTool
       \/ Summarize
       \/ Respond
       \/ Fail
       \/ Feedback(TRUE)
       \/ Feedback(FALSE)
    /\ UNCHANGED <<calls, shared, sid, probe>>

Spec == Init /\ [][Next]_vars

\* the same service, used by a client with either session id
SessionInit ==
    /\ hist = <<>>
    /\ state = NoTurn
    /\ pc = "idle"
    /\ resp = NoResponse
    /\ obs = NoObs
    /\ collected = {}
    /\ turns = 0
    /\ calls = [c \in Sessions |-> NoCall]
    /\ shared = SharedInit
    /\ sid \in SessionIds
    /\ probe = NoProbe

SessionSpec == SessionInit /\ [][Next]_vars

-----------------------------------------------------------------------------
(* Slot-filling dialogues: the session opens with a request, and every later *)
(* message answers the question of the previous reply; the router ranks the  *)
(* session's intent first and the extractor returns the slot that was asked. *)
(* Only the messages get_context reads are retained, so the dialogue may go  *)
(* on without bound.                                                         *)

Openers == {"loan", "loanfull", "card", "deposit", "describe", "usd"}

Asked == resp.pending[1]

Reenter(text) ==
    /\ pc = "idle"
    /\ IF hist = <<>> THEN text \in Openers
       ELSE resp.pending /= <<>> /\ Asked \in DOMAIN Says(text)
    /\ state' = InitialState(text, get_context(hist, ContextLimit))
    /\ obs' = NoObs
    /\ pc' = "route"
    /\ UNCHANGED <<hist, resp, collected, turns>>

DialogueMatches ==
    [name : IF state.history = <<>> THEN Labels(state.text) ELSE {resp.router.intent},
     distance : {150}, found : {TRUE}]

DialogueExtractions ==
    IF state.history = <<>> THEN Extractions(state.text)
    ELSE {[ok |-> TRUE, values |-> [k \in {Asked} |-> Says(state.text)[k]]]}

DialogueNext ==
    /\ \/ \E text \in Texts \cup Answers : Reenter(text)
       \/ RouteReuse
       \/ \E match \in DialogueMatches : RouteClassify(match)
       \/ \E extracted \in DialogueExtractions : ParseSlots(extracted)
       \/ DecideNext
       \/ CallTool
       \/ Summarize
       \/ RespondKeeping(ContextLimit)
    /\ UNCHANGED <<calls, shared, sid, probe>>

\* the caller always sends the next message and a started turn always ends
DialogueSpec == Init /\ [][DialogueNext]_vars /\ WF_vars(DialogueNext)

-----------------------------------------------------------------------------
(* Two handle_turn invocations of different sessions, interleaved node by    *)
(* node.  Each builds its own ConversationState; the compiled graph, the     *)
(* router and the routes' metadata are module-level objects.  A list held by *)
(* a state is either the state's own ("local") or the list object of the     *)
(* route's metadata ("route"); removing from the latter changes the metadata *)
(* every later invocation reads.                                             *)

CallTexts == {"loanfull", "60", "branch"}

\* the context of a session whose first message was not understood
AskedBefore ==
    get_context(add_message(add_message(<<>>, "user", TextTokens("500000"), "unknown", 0),
                            "assistant", ClarifyReply, "unknown", 0),
                ContextLimit)

CallContexts == {None, AskedBefore}

\* a list that shares the object it was taken from
ListAlias(ref) == ref

\* required_slots.copy()
ListCopy(ref) == "local"

\* route_text, with the metadata read from the router's route objects
SharedRouteText(match) ==
    LET result == route_text(match) IN
    IF result.intent = "unknown" \/ ~match.found THEN result
    ELSE [result EXCEPT !.metadata = shared.routes[result.intent]]

InFlight(c) == calls[c].pc \in {"parse", "decide", "call_tool", "summarize", "END"}

\* handle_turn up to graph.invoke
Enter(c, text, context) ==
    /\ calls[c].pc = "out"
    /\ calls' = [calls EXCEPT ![c] = [NoCall EXCEPT !.pc = "graph",
                                                    !.state = InitialState(text, context)]]
    /\ UNCHANGED shared

\* get_graph: the first caller compiles the graph
GetGraph(c) ==
    /\ calls[c].pc = "graph"
    /\ calls' = [calls EXCEPT ![c].pc = "route"]
    /\ shared' = [shared EXCEPT !.graph = "built"]

RouteNodeReuse(c) ==
    LET st == calls[c].state
        reuse_intent == ReuseIntent(TextTokens(st.text), st.history) IN
    /\ calls[c].pc = "route"
    /\ reuse_intent /= ""
    /\ calls' = [calls EXCEPT ![c].state = RouteReused(st, reuse_intent),
                              ![c].pending_ref = "local",
                              ![c].overlapped = \E d \in Sessions \ {c} : InFlight(d),
                              ![c].pc = "parse"]
    /\ UNCHANGED shared

\* get_router creates the router on first use; the pending list is a copy
RouteNodeClassify(c, match) ==
    LET st == calls[c].state IN
    /\ calls[c].pc = "route"
    /\ ReuseIntent(TextTokens(st.text), st.history) = ""
    /\ calls' = [calls EXCEPT ![c].state = RouteClassified(st, SharedRouteText(match)),
                              ![c].match = match,
                              ![c].pending_ref = ListCopy("route"),
                              ![c].overlapped = \E d \in Sessions \ {c} : InFlight(d),
                              ![c].pc = "parse"]
    /\ shared' = [shared EXCEPT !.router = "built"]

ParseNodeSkip(c) ==
    /\ calls[c].pc = "parse"
    /\ calls[c].state.pending_slots = <<>>
    /\ calls' = [calls EXCEPT ![c].pc = "decide"]
    /\ UNCHANGED shared

\* a node that removes the extracted slots from the route's own list
ParseNodeOnTheRouteList(c, extracted) ==
    LET st == calls[c].state
        after == parse_slots_node(st, extracted) IN
    /\ calls[c].pc = "parse"
    /\ st.pending_slots /= <<>>
    /\ calls' = [calls EXCEPT ![c].state = after,
                              ![c].extracted = extracted,
                              ![c].pc = "decide"]
    /\ shared' = IF st.intent \in Intents
                 THEN [shared EXCEPT !.routes[st.intent].required_slots = after.pending_slots]
                 ELSE shared

\* pending_slots.remove(slot) acts on the list object the state holds
ParseNode(c, extracted) ==
    LET st == calls[c].state
        after == parse_slots_node(st, extracted) IN
    /\ calls[c].pc = "parse"
    /\ st.pending_slots /= <<>>
    /\ calls' = [calls EXCEPT ![c].state = after,
                              ![c].extracted = extracted,
                              ![c].pc = "decide"]
    /\ shared' = IF calls[c].pending_ref = "route"
                 THEN [shared EXCEPT !.routes[st.intent].required_slots = after.pending_slots]
                 ELSE shared

DecideNode(c) ==
    LET after == decide_next_node(calls[c].state) IN
    /\ calls[c].pc = "decide"
    /\ calls' = [calls EXCEPT ![c].state = after,
                              ![c].pending_ref = "local",
                              ![c].pc = should_continue(after)]
    /\ UNCHANGED shared

CallToolNode(c) ==
    /\ calls[c].pc = "call_tool"
    /\ \E outcome \in ToolOutcomes(calls[c].state) :
          calls' = [calls EXCEPT ![c].state = call_tool_node(calls[c].state, outcome),
                                 ![c].outcome = outcome,
                                 ![c].pc = "summarize"]
    /\ UNCHANGED shared

SummarizeNode(c) ==
    /\ calls[c].pc = "summarize"
    /\ calls' = [calls EXCEPT ![c].state = summarize_node(calls[c].state),
                              ![c].pc = "END"]
    /\ UNCHANGED shared

Return(c) ==
    /\ calls[c].pc = "END"
    /\ calls' = [calls EXCEPT ![c].resp = Response(calls[c].state),
                              ![c].pc = "done"]
    /\ UNCHANGED shared

TwoSessionsNext ==
    /\ \E c \in Sessions :
          \/ \E text \in CallTexts, context \in CallContexts : Enter(c, text, context)
          \/ GetGraph(c)
          \/ RouteNodeReuse(c)
          \/ \E match \in Matches(calls[c].state.text) : RouteNodeClassify(c, match)
          \/ ParseNodeSkip(c)
          \/ \E extracted \in Extractions(calls[c].state.text) : ParseNode(c, extracted)
          \/ DecideNode(c)
          \/ CallToolNode(c)
          \/ SummarizeNode(c)
          \/ Return(c)
    /\ UNCHANGED <<hist, state, pc, resp, obs, collected, turns, sid, probe>>

TwoSessionsSpec == Init /\ [][TwoSessionsNext]_vars

\* handle_turn run on its own: the response as a function of the message, the
\* context and what the router, the extractor and the tool answered
HandleTurnAlone(text, context, match, extracted, outcome) ==
    LET initial_state == InitialState(text, context)
        reuse_intent == ReuseIntent(TextTokens(text), initial_state.history)
        routed == IF reuse_intent /= "" THEN RouteReused(initial_state, reuse_intent)
                  ELSE RouteClassified(initial_state, route_text(match))
        parsed == parse_slots_node(routed, extracted)
        decided == decide_next_node(parsed)
        final_state == IF should_continue(decided) = "call_tool"
                       THEN summarize_node(call_tool_node(decided, outcome))
                       ELSE decided
    IN  Response(final_state)

-----------------------------------------------------------------------------
(* The tools of the registry called directly: parameters are picked, and the *)
(* tool is invoked twice with them.                                          *)

ProbeParams(handler_name) ==
    CASE handler_name = "loans_tool" ->
            [loan_amount : {100000, 500000}, interest_rate : {105}, tenure_months : {12, 60}]
      [] handler_name = "cards_tool" ->
            [income : {0, 199999, 200000, 299999, 300000, 499999, 500000, 1499999,
                       1500000, 2000000},
             preferred_benefits : {"travel", "cashback", "premium", "general", "rewards"}]
      [] handler_name = "savings_tool" ->
            [total_amount : {100000, 500000}, tenure_months : {12}]
      [] handler_name = "forex_tool" ->
            [currency : {"USD", "usd", "eur", "XYZ", "xyz"}, amount : {1000, 50000}]
      [] handler_name = "fraud_tool" ->
            [transaction_id : {"TXN123", "immediate"},
             description : {TextTokens("stolen"), TextTokens("describe"),
                            TextTokens("stole")}]
      [] handler_name = "policy_rag_tool" ->
            [query : {TextTokens("branch"), TextTokens("loan")}]

PickTool(handler_name, p) ==
    /\ probe = NoProbe
    /\ probe' = [handler |-> handler_name, params |-> p, results |-> <<>>]

\* tool.invoke(params): the random number and the time are whatever they are
\* at the moment of the call
InvokeDirectly ==
    /\ probe.handler /= ""
    /\ Len(probe.results) < 2
    /\ \E case_number \in CaseNumbers, now \in Clock :
          probe' = [probe EXCEPT !.results =
                       Append(@, InvokeTool(probe.handler, probe.params, case_number, now))]

ForgetProbe ==
    /\ Len(probe.results) = 2
    /\ probe' = NoProbe

ToolsNext ==
    /\ \/ \E handler_name \in TOOL_MAP :
             \E p \in ProbeParams(handler_name) : PickTool(handler_name, p)
       \/ InvokeDirectly
       \/ ForgetProbe
    /\ UNCHANGED <<hist, state, pc, resp, obs, collected, turns, calls, shared, sid>>

ToolsSpec == Init /\ [][ToolsNext]_vars

-----------------------------------------------------------------------------
(* BankingRouter.route_text called directly on each answer the semantic     *)
(* router may give.                                                          *)

\* distances in thousandths, on both sides of each threshold
ProbeDistances == {0, 150, 199, 200, 201, 349, 350, 351, 900}

ProbeMatches ==
    {NoMatch} \cup [name : Intents, distance : ProbeDistances, found : BOOLEAN]

RouteDirectly(match) ==
    /\ probe = NoProbe
    /\ probe' = [handler |-> "route_text", params |-> match,
                 results |-> <<route_text(match)>>]

ForgetRoute ==
    /\ probe.handler = "route_text"
    /\ probe' = NoProbe

RouterNext ==
    /\ \/ \E match \in ProbeMatches : RouteDirectly(match)
       \/ ForgetRoute
    /\ UNCHANGED <<hist, state, pc, resp, obs, collected, turns, calls, shared, sid>>

RouterSpec == Init /\ [][RouterNext]_vars

-----------------------------------------------------------------------------
(* extract_slots_from_context called directly on one-line contexts: a        *)
(* tenure phrase, a number, and possibly a unit.                              *)

ProbeContexts ==
    [lead : {"tenure", "duration", "how long"},
     n : {0, 1, 2, 5, 60, 360, 361, 1000},
     unit : {"", "month", "months", "year", "years"}]

\* the text of the context
ContextOf(c) ==
    (IF c.lead = "how long" THEN Words(<<"for", "how", "long">>)
     ELSE Words(<<"the", c.lead, "is">>))
    \o <<N(c.n)>>
    \o (IF c.unit = "" THEN <<>> ELSE <<W(c.unit)>>)

RecoverDirectly(c) ==
    /\ probe = NoProbe
    /\ probe' = [handler |-> "extract_slots_from_context", params |-> c,
                 results |-> <<extract_slots_from_context(ContextOf(c))>>]

ForgetRecovery ==
    /\ probe.handler = "extract_slots_from_context"
    /\ probe' = NoProbe

ContextNext ==
    /\ \/ \E c \in ProbeContexts : RecoverDirectly(c)
       \/ ForgetRecovery
    /\ UNCHANGED <<hist, state, pc, resp, obs, collected, turns, calls, shared, sid>>

ContextSpec == Init /\ [][ContextNext]_vars

-----------------------------------------------------------------------------
(* Properties of a turn.  A turn has ended when pc = "END": state is the    *)
(* final state of the graph and Response(state) is what handle_turn returns.*)

TurnEnded == pc = "END"
ToolInvoked == obs.tool > 0
RequiredSlots(intent) == Contents(RouteMetadata(intent).required_slots)

\* C1: on the first turn of a session (no context), a turn whose intent has no
\* required slot (policy_faq, routed to its handler) invokes the tool and
\* returns the tool summary as reply together with a proposal.
C1_PolicyActsOnFirstTurn ==
    (/\ TurnEnded
     /\ state.history = <<>>
     /\ state.intent = "policy_faq"
     /\ HandlerOf(state) = "policy_rag_tool")
    => (/\ ToolInvoked
        /\ Truthy(state.tool_result)
        /\ Response(state).reply = state.tool_result.summary
        /\ Truthy(Response(state).proposal)
        /\ Response(state).pending = <<>>)

\* C2: a turn in which the router returns no candidate ends with intent
\* unknown, the clarification message as reply, no pending slot and no proposal.
C2_NoCandidateClarifies ==
    (TurnEnded /\ obs.classifier > 0 /\ state.router_result.intent = "unknown")
    => (/\ Response(state).router.intent = "unknown"
        /\ Response(state).reply = ClarifyReply
        /\ Response(state).pending = <<>>
        /\ Response(state).proposal = None)

\* C3: in a slot-filling dialogue a turn that invokes the tool is eventually
\* reached, whatever the intent of the session.
C3_SlotFillingCompletes == <>ToolInvoked

\* C4: every slot stored by an earlier turn of the session is among the
\* collected slots when a later turn starts.
C4_SlotsPersist ==
    pc = "route" => collected \subseteq DOMAIN state.slots

\* C5: a turn ends in exactly one of the three terminal states.
ClarifyUnknownIntent ==
    /\ state.intent = "unknown"
    /\ state.reply = ClarifyReply
    /\ ~ToolInvoked
AskForSlot ==
    /\ state.intent /= "unknown"
    /\ state.pending_slots /= <<>>
    /\ state.reply = slot_questions(state.pending_slots[1])
    /\ ~ToolInvoked
ToolInvokedAndSummarized ==
    /\ state.intent /= "unknown"
    /\ state.pending_slots = <<>>
    /\ ToolInvoked
    /\ Truthy(state.tool_result)
    /\ state.reply = state.tool_result.summary
    /\ Truthy(state.proposal)
C5_ThreeTerminalStates ==
    TurnEnded => (ClarifyUnknownIntent \/ AskForSlot \/ ToolInvokedAndSummarized)

C7_ParseKeepsKnownSlots ==
    [][(pc = "parse" /\ pc' = "decide")
       => \A k \in DOMAIN state.slots : state'.slots[k] = state.slots[k]]_vars

\* C8: when the router call raises or returns nothing, no exception leaves
\* handle_turn, and the turn ends with intent unknown and the clarification
\* message.
C8_RouterFailureIsClarified ==
    /\ pc /= "raised"
    /\ (TurnEnded /\ obs.classifier > 0 /\ state.router_result.intent = "unknown")
       => (state.intent = "unknown" /\ state.reply = ClarifyReply)

\* C9: a turn with a resolved intent, no pending slot and no registered handler
\* replies with the support message and invokes no tool, whether or not any
\* slot has been collected.
C9_MissingHandlerGetsSupportReply ==
    (/\ TurnEnded
     /\ state.intent /= "unknown"
     /\ state.pending_slots = <<>>
     /\ ~ToolRuns(state))
    => (state.reply = SupportReply /\ ~ToolInvoked)

\* C10: if the tool raises, the turn still ends normally: the tool result is
\* the error-shaped result (summary with the message, one bullet, data.error
\* the message), the reply is that summary and the proposal carries data.error.
C10_ToolErrorIsSummarized ==
    (obs.tool_error /= <<>>)
    => (/\ pc \in {"summarize", "END"}
        /\ state.tool_result.summary
              = Words(<<"sorry", "i", "encountered", "an", "error">>) \o obs.tool_error
        /\ Len(state.tool_result.bullets) = 1
        /\ state.tool_result.data.error = obs.tool_error
        /\ TurnEnded =>
              /\ Response(state).reply = state.tool_result.summary
              /\ Truthy(Response(state).proposal)
              /\ Response(state).proposal.data.error = obs.tool_error
              /\ Response(state).proposal.bullets = state.tool_result.bullets)
C10_Witness ==
    TurnEnded /\ obs.tool_error /= <<>>

\* C11: when the extractor raises or returns something that is not a JSON
\* object, parse_slots_node leaves slots and pending as they were, the turn
\* goes on to the decision stage and the chat endpoint answers normally.
C11_ExtractorFailureIsIgnored ==
    [][/\ (pc = "parse" /\ obs'.extractor_failed)
          => (/\ state'.slots = state.slots
              /\ state'.pending_slots = state.pending_slots
              /\ pc' = "decide")
       /\ (obs.extractor_failed /\ pc' = "idle")
          => (resp'.status = 200 /\ resp'.pending = state.pending_slots)]_vars
C11_Witness ==
    /\ TurnEnded
    /\ obs.extractor_failed
    /\ state.slots /= <<>>
    /\ state.pending_slots /= <<>>

Routed == pc \in {"parse", "decide", "call_tool", "summarize", "END"}
FromContext == Get(state.router_result, "source", "") = "context"
ShortMessage == Len(TextTokens(state.text)) <= 3
IntentKeywords ==
    {"loan", "credit", "savings", "fd", "forex", "currency", "policy", "faq",
     "fraud", "dispute"}

\* C12: with a context that mentions "loan" and a message of at most three
\* tokens, the turn resolves loan / high / 0.95 / source context without
\* calling the classifier, and pending starts as [loan_type, amount, tenure].
C12_ShortAnswerReusesLoan ==
    (/\ Routed
     /\ state.history /= <<>>
     /\ ShortMessage
     /\ Contains(state.history[1], "loan"))
    => (/\ state.intent = "loan"
        /\ state.confidence = "high"
        /\ state.router_result.intent = "loan"
        /\ state.router_result.score = 950
        /\ FromContext
        /\ obs.classifier = 0
        /\ pc = "parse" => state.pending_slots = <<"loan_type", "amount", "tenure">>)
C12_Witness ==
    /\ pc = "parse"
    /\ state.history /= <<>>
    /\ state.text = "60"
    /\ Contains(state.history[1], "loan")
    /\ Contains(state.history[1], "credit")

ResolvedRequired == Get(state.router_result.metadata, "required_slots", <<>>)
Missing == Without(ResolvedRequired, DOMAIN state.slots)

\* C14: for a non-unknown intent with a required slot still missing, the reply
\* is the question of the first missing slot in declaration order, no tool is
\* invoked and the proposal is null.
C14_AsksFirstMissingSlot ==
    (TurnEnded /\ state.intent /= "unknown" /\ Missing /= <<>>)
    => (/\ ResolvedRequired = RouteMetadata(state.intent).required_slots
        /\ Response(state).reply = slot_questions(Missing[1])
        /\ ~ToolInvoked
        /\ state.tool_result = None
        /\ Response(state).proposal = None)
C14_Witness ==
    /\ TurnEnded
    /\ state.intent /= "unknown"
    /\ Missing /= <<>>
    /\ Missing[1] /= ResolvedRequired[1]
    /\ Response(state).reply = slot_questions(Missing[1])

\* C15: for a non-unknown intent, the pending list handle_turn returns is the
\* intent's required-slot list, in declaration order, minus every collected
\* slot.
C15_PendingIsRequiredMinusCollected ==
    (TurnEnded /\ state.intent /= "unknown")
    => (/\ Response(state).pending = Missing
        /\ Truthy(state.router_result.metadata)
              => ResolvedRequired = RouteMetadata(state.intent).required_slots)
C15_Witness ==
    /\ TurnEnded
    /\ state.intent /= "unknown"
    /\ state.history /= <<>>
    /\ Missing /= <<>>
    /\ Len(Missing) < Len(ResolvedRequired)
    /\ obs.extractor_failed

StagesRun == Contents(obs.stages)

\* C16: in a turn whose intent is unknown the slot extractor is not called and
\* no tool is invoked.
C16_UnknownCallsNothing ==
    (Routed /\ state.intent = "unknown")
    => (/\ obs.extractor = 0
        /\ obs.tool = 0
        /\ state.tool_result = None
        /\ Response(state).proposal = None)
C16_Witness ==
    /\ TurnEnded
    /\ state.intent = "unknown"
    /\ "call_tool" \in StagesRun

\* C17: a first message resolved to loan from which the extractor returns
\* loan_type, amount = 500000 and tenure = 60 asks no question: pending is
\* empty, the loans tool is invoked once with 500000 / 10.5 / 60, and the
\* proposal's data.tenure is 60.
C17_LoanFullInfoTurn ==
    (/\ TurnEnded
     /\ state.history = <<>>
     /\ state.intent = "loan"
     /\ obs.extractor = 1
     /\ state.slots = [loan_type |-> "personal", amount |-> 500000, tenure |-> 60])
    => (/\ Response(state).pending = <<>>
        /\ obs.tool = 1
        /\ HandlerOf(state) = "loans_tool"
        /\ tool_params(state)
              = [loan_amount |-> 500000, interest_rate |-> 105, tenure_months |-> 60]
        /\ Truthy(Response(state).proposal)
        /\ obs.tool_error = <<>> =>
              /\ Response(state).proposal.data.tenure = 60
              /\ Response(state).proposal.data.principal = 500000
              /\ Response(state).reply = calculate_emi_tool(tool_params(state)).summary)
C17_Witness ==
    /\ TurnEnded
    /\ state.text = "loanfull"
    /\ state.history = <<>>
    /\ obs.tool = 1
    /\ obs.tool_error = <<>>
    /\ DOMAIN state.slots = {"loan_type", "amount", "tenure"}

\* C18: whatever the interleaving of two invocations of different sessions,
\* each returns the response it returns when run alone, and the shared routes'
\* metadata is never written.
C18_SessionsAreIndependent ==
    /\ shared.routes = [i \in Intents |-> RouteMetadata(i)]
    /\ \A c \in Sessions :
          calls[c].pc = "done"
          => calls[c].resp
                = HandleTurnAlone(calls[c].state.text,
                                  IF calls[c].state.history = <<>> THEN None
                                  ELSE calls[c].state.history[1],
                                  calls[c].match, calls[c].extracted, calls[c].outcome)
C18_Witness ==
    /\ calls["A"].pc = "done"
    /\ calls["B"].pc = "done"
    /\ calls["B"].overlapped
    /\ calls["A"].state.intent = "loan"
    /\ calls["B"].state.intent = "loan"
    /\ calls["A"].extracted.ok
    /\ calls["A"].state.text = "loanfull"
    /\ calls["B"].state.text = "loanfull"
    /\ calls["A"].resp /= calls["B"].resp

FeedbackAnswered == resp.status = 200 /\ "cleared" \in DOMAIN resp

\* C19: after a feedback request with helpful = true the next chat turn of the
\* session is handled with no context and no recovered slot; a feedback
\* request with helpful = false leaves the stored conversation unchanged.
C19_HelpfulFeedbackClears ==
    [][/\ (pc = "idle" /\ pc' = "route" /\ FeedbackAnswered /\ resp.cleared)
          => (state'.history = <<>> /\ state'.slots = <<>>)
       /\ (pc = "idle" /\ pc' = "idle" /\ resp'.status = 200 /\ ~resp'.cleared)
          => hist' = hist]_vars

\* C20: two invocations of a tool of the registry with identical parameters
\* return the same data.
C20_ToolsAreDeterministic ==
    Len(probe.results) = 2 => probe.results[1].data = probe.results[2].data

\* the fraud tool was called directly and has returned
FraudProbed == probe.handler = "fraud_tool" /\ probe.results /= <<>>

\* C21: the fraud tool called with transaction_id "immediate" and the
\* description "someone stole my card" returns priority HIGH and status
\* CARD_BLOCKED.
C21_StoleMyCardIsUrgent ==
    (/\ FraudProbed
     /\ probe.params.transaction_id = "immediate"
     /\ probe.params.description = TextTokens("stole"))
    => \A i \in 1..Len(probe.results) :
          /\ probe.results[i].data.priority = "HIGH"
          /\ probe.results[i].data.status = "CARD_BLOCKED"

\* C22: the fraud tool called with transaction_id "immediate" returns status
\* CARD_BLOCKED, whatever the description.
C22_ImmediateBlocksTheCard ==
    (FraudProbed /\ probe.params.transaction_id = "immediate")
    => \A i \in 1..Len(probe.results) :
          probe.results[i].data.status = "CARD_BLOCKED"

\* the forex tool was called directly and has returned
ForexProbed == probe.handler = "forex_tool" /\ probe.results /= <<>>

\* C23: for a currency code that is not a supported code after upper-casing,
\* the forex tool returns data.error = "unsupported_currency", a summary that
\* lists the supported codes, and no converted amount; for a supported code in
\* any letter case the data carries no error.
C23_UnsupportedCurrencyIsReported ==
    ForexProbed =>
        \A i \in 1..Len(probe.results) :
            LET result == probe.results[i] IN
            IF Upper(probe.params.currency) \in Contents(ForexCurrencies)
            THEN /\ "error" \notin DOMAIN result.data
                 /\ result.data.currency = Upper(probe.params.currency)
            ELSE /\ result.data = [error |-> <<W("unsupported_currency")>>]
                 /\ \A code \in Contents(ForexCurrencies) :
                        \E j \in 1..Len(result.summary) :
                            result.summary[j] = W(Lower(code))

C23_Witness ==
    /\ ForexProbed
    /\ probe.params.currency = "xyz"
    /\ probe.results[1].data = [error |-> <<W("unsupported_currency")>>]

\* route_text was called directly and has returned
RouteProbed == probe.handler = "route_text" /\ probe.results /= <<>>

\* C24: a fresh classification has confidence high for a distance below 0.20,
\* medium from 0.20 to below 0.35 and low from 0.35 on, whatever the route;
\* with no candidate the result is intent unknown, confidence none, score 0
\* and empty metadata.
C24_ConfidenceFollowsDistance ==
    RouteProbed =>
        LET match == probe.params
            result == probe.results[1]
        IN  IF match.name = ""
            THEN /\ result.intent = "unknown"
                 /\ result.confidence = "none"
                 /\ result.score = 0
                 /\ result.metadata = None
            ELSE /\ result.intent = match.name
                 /\ match.distance < 200 => result.confidence = "high"
                 /\ (200 <= match.distance /\ match.distance < 350)
                        => result.confidence = "medium"
                 /\ match.distance >= 350 => result.confidence = "low"

C24_Witness ==
    /\ RouteProbed
    /\ probe.params.name /= ""
    /\ probe.params.distance = 200
    /\ probe.results[1].confidence = "medium"

\* the loans tool was called directly with 500000 / 10.5 / 60 and has returned
LoanScenarioProbed ==
    /\ probe.handler = "loans_tool"
    /\ probe.params = [loan_amount |-> 500000, interest_rate |-> 105, tenure_months |-> 60]
    /\ probe.results /= <<>>

\* C25 as stated: calculate_emi with loan_amount 500000, interest_rate 10.5
\* and tenure_months 60 returns data.emi approximately 10,832 (within ten
\* rupees of it).
C25_EmiIsAbout10832 ==
    LoanScenarioProbed =>
        /\ probe.results[1].data.emi >= 10822
        /\ probe.results[1].data.emi <= 10842

\* C25 as amended: calculate_emi with loan_amount 500000, interest_rate 10.5
\* and tenure_months 60 returns data.emi approximately 10,747 (10,746.95
\* rounded to whole rupees).
C25_EmiIsAbout10747 ==
    LoanScenarioProbed =>
        \A i \in 1..Len(probe.results) : probe.results[i].data.emi = 10747

C25_Witness ==
    /\ LoanScenarioProbed
    /\ Len(probe.results) = 2
    /\ probe.results[2].data.tenure = 60

\* the nodes of the graph along its edges, from the entry point
GraphOrder == <<"route_intent", "parse_slots", "decide_next", "call_tool", "summarize">>

\* C26: within a turn the stages run in the order route, parse slots, decide,
\* then optionally call tool followed by summarize, each at most once, with at
\* most one classifier call, one extractor call and one tool invocation; and
\* while the turn is under way a next stage can always run, so the turn ends
\* within five stages.
C26_StagesRunOnceInOrder ==
    /\ Len(obs.stages) <= Len(GraphOrder)
    /\ obs.stages = SubSeq(GraphOrder, 1, Len(obs.stages))
    /\ obs.classifier <= 1
    /\ obs.extractor <= 1
    /\ obs.tool <= 1
    /\ TurnEnded => Len(obs.stages) \in {3, 5}
    /\ pc \in {"route", "parse", "decide", "call_tool", "summarize"} => ENABLED Next

C26_Witness ==
    /\ TurnEnded
    /\ obs.stages = GraphOrder
    /\ obs.classifier = 1
    /\ obs.extractor = 1
    /\ obs.tool = 1

\* C27: after a successful extraction every field returned with a value is in
\* the collected slots with that value and is not pending, and every other
\* field is in the slots and in the pending list exactly as before.
C27_ExtractedFieldsAreStored ==
    [][(pc = "parse" /\ pc' = "decide" /\ state.pending_slots /= <<>>) =>
        \A extracted \in Extractions(state.text) :
            (extracted.ok /\ state' = parse_slots_node(state, extracted)) =>
                /\ \A slot \in DOMAIN extracted.values :
                      /\ slot \in DOMAIN state'.slots
                      /\ state'.slots[slot] = extracted.values[slot]
                      /\ slot \notin Contents(state'.pending_slots)
                /\ \A slot \in (DOMAIN state.slots \cup DOMAIN state'.slots
                                \cup Contents(state.pending_slots)
                                \cup Contents(state'.pending_slots))
                               \ DOMAIN extracted.values :
                      /\ slot \in DOMAIN state'.slots <=> slot \in DOMAIN state.slots
                      /\ slot \in DOMAIN state.slots => state'.slots[slot] = state.slots[slot]
                      /\ slot \in Contents(state'.pending_slots)
                            <=> slot \in Contents(state.pending_slots)
                /\ state'.pending_slots
                      = Without(state.pending_slots, DOMAIN extracted.values)]_vars

C27_Witness ==
    /\ pc = "decide"
    /\ obs.extractor = 1
    /\ ~obs.extractor_failed
    /\ state.intent = "loan"
    /\ "tenure" \in DOMAIN state.slots
    /\ state.slots["tenure"] = 60
    /\ state.pending_slots = <<"loan_type", "amount">>

\* C28: when the intent of a short message is reused from the context, it is
\* the first intent, in the order loan, credit_card, savings_fd, forex_travel,
\* policy_faq, fraud_dispute, of which a keyword occurs anywhere in the
\* context; and a short message with such a context always reuses.
C28_FirstIntentInFixedOrderWins ==
    LET order == <<"loan", "credit_card", "savings_fd", "forex_travel", "policy_faq",
                   "fraud_dispute">>
        keywords(i) ==
            CASE i = "loan" -> {"loan"}
              [] i = "credit_card" -> {"credit"}
              [] i = "savings_fd" -> {"savings", "fd"}
              [] i = "forex_travel" -> {"forex", "currency"}
              [] i = "policy_faq" -> {"policy", "faq"}
              [] i = "fraud_dispute" -> {"fraud", "dispute"}
        matched(i) == \E kw \in keywords(i) : Contains(state.history[1], kw)
    IN  /\ (Routed /\ FromContext) =>
              \E k \in 1..Len(order) :
                  /\ state.intent = order[k]
                  /\ matched(order[k])
                  /\ \A j \in 1..(k - 1) : ~matched(order[j])
        /\ (/\ Routed
            /\ state.history /= <<>>
            /\ ShortMessage
            /\ \E k \in 1..Len(order) : matched(order[k])) => FromContext

\* a context in which "credit" comes before the first "loan"
C28_Witness ==
    /\ Routed
    /\ FromContext
    /\ state.intent = "loan"
    /\ \E i \in 1..Len(state.history[1]) :
          /\ state.history[1][i].k = "w"
          /\ "credit" \in SubWords(state.history[1][i].s)
          /\ ~Contains(SubSeq(state.history[1], 1, i), "loan")

\* C29: when handle_turn returns, the proposal is non-null exactly when a tool
\* was invoked in the turn; then the reply is the tool result's summary and
\* the proposal holds exactly its bullets and data; and the chat response has
\* showFeedback true exactly for those turns.
C29_ProposalIffToolInvoked ==
    [][(pc = "END" /\ pc' = "idle") =>
        /\ Truthy(Response(state).proposal) <=> ToolInvoked
        /\ ToolInvoked =>
              /\ Response(state).reply = state.tool_result.summary
              /\ Response(state).proposal = [bullets |-> state.tool_result.bullets,
                                             data |-> state.tool_result.data]
        /\ resp'.proposal = Response(state).proposal
        /\ resp'.reply = Response(state).reply
        /\ resp'.showFeedback <=> ToolInvoked]_vars

C29_Witness ==
    /\ pc = "idle"
    /\ "showFeedback" \in DOMAIN resp
    /\ resp.showFeedback
    /\ resp.proposal.bullets /= <<>>
    /\ "error" \notin DOMAIN resp.proposal.data

\* C30: when the fraud tool is invoked, its description parameter is the
\* collected description slot if there is one and the text of the message
\* otherwise, and its transaction_id parameter is the collected
\* transaction_id slot, or "immediate" when there is none.
C30_FraudToolGetsCollectedSlots ==
    (pc = "summarize" /\ ToolInvoked /\ HandlerOf(state) = "fraud_tool") =>
        /\ tool_params(state).description
              = Get(state.slots, "description", TextTokens(state.text))
        /\ tool_params(state).transaction_id
              = Get(state.slots, "transaction_id", "immediate")

\* C31: for each of the six intents the required slots and the handler used
\* on reuse from the context are those the routing table declares, and every
\* declared handler is in the tool registry; so right after routing the
\* pending list and the handler of a turn are the declared ones, whether the
\* intent was reused or came from the classifier with its route.
C31_ReuseTableMatchesRoutingTable ==
    /\ \A i \in Intents :
          /\ ReuseMetadata(i).required_slots = RouteMetadata(i).required_slots
          /\ ReuseMetadata(i).handler = RouteMetadata(i).handler
          /\ RouteMetadata(i).handler \in TOOL_MAP
    /\ (/\ pc = "parse"
        /\ state.intent \in Intents
        /\ FromContext \/ Truthy(state.router_result.metadata))
       => /\ state.pending_slots = RouteMetadata(state.intent).required_slots
          /\ HandlerOf(state) = RouteMetadata(state.intent).handler
          /\ ToolRuns(state)

C31_Witness ==
    /\ pc = "parse"
    /\ FromContext
    /\ state.intent = "credit_card"
    /\ state.pending_slots = <<"income", "card_type">>

\* C32: no slot value of a turn comes from assistant-authored text: the value
\* of every loan_type, card_type, amount, tenure or income slot of the turn
\* occurs in a user message of the session or in the current message.
C32_NoSlotFromAssistantText ==
    LET said == UNION ({Contents(hist[i].text) : i \in {j \in 1..Len(hist) : hist[j].role = "user"}}
                       \cup {Contents(TextTokens(state.text))})
        token(slot) == IF slot \in {"loan_type", "card_type"}
                       THEN W(state.slots[slot]) ELSE N(state.slots[slot])
    IN  pc \in {"route", "parse", "decide", "call_tool", "summarize", "END"} =>
            \A slot \in DOMAIN state.slots
                        \cap {"loan_type", "card_type", "amount", "tenure", "income"} :
                token(slot) \in said

\* C33: in context recovery a matched tenure number n followed by a year unit
\* gives tenure = 12 * n, followed by a month unit gives tenure = n for any n,
\* and with no unit gives tenure = n only when 2 <= n <= 360 and no tenure
\* slot otherwise.
C33_TenureUnits ==
    (probe.handler = "extract_slots_from_context" /\ probe.results /= <<>>) =>
        LET n == probe.params.n
            unit == probe.params.unit
            slots == probe.results[1]
        IN  /\ unit \in {"year", "years"} =>
                  "tenure" \in DOMAIN slots /\ slots.tenure = 12 * n
            /\ unit \in {"month", "months"} =>
                  "tenure" \in DOMAIN slots /\ slots.tenure = n
            /\ (unit = "" /\ 2 <= n /\ n <= 360) =>
                  "tenure" \in DOMAIN slots /\ slots.tenure = n
            /\ (unit = "" /\ (n < 2 \/ n > 360)) => "tenure" \notin DOMAIN slots

\* C34: the context handed to handle_turn is read from the store before the
\* turn and the store is not written while the turn is handled, so the context
\* holds earlier turns only; when handle_turn has returned, exactly two
\* messages are appended, the user message and then the assistant reply with
\* the intent and score of the turn
C34_TurnIsStoredAfterItIsHandled ==
    [][LET user == [role |-> "user", text |-> TextTokens(state.text),
                    intent |-> "unknown", score |-> 0]
           assistant == [role |-> "assistant", text |-> resp'.reply,
                         intent |-> resp'.router.intent, score |-> resp'.router.score]
       IN  /\ pc' \notin {"idle", "raised"} =>
                 /\ hist' = hist
                 /\ state'.history =
                       IF hist = <<>> THEN <<>> ELSE <<Lines(LastN(hist, ContextLimit))>>
           /\ pc = "END" /\ pc' = "idle" =>
                 /\ resp'.status = 200
                 /\ resp'.router.intent = state.intent
                 /\ Len(hist') >= 2
                 /\ hist'[Len(hist') - 1] = user
                 /\ hist'[Len(hist')] = assistant
                 /\ Len(hist) + 2 <= ContextLimit => hist' = hist \o <<user, assistant>>
      ]_vars

C34_Witness ==
    /\ pc = "idle"
    /\ resp.status = 200
    /\ Len(hist) = 4
    /\ hist[3].role = "user" /\ hist[3].text = TextTokens("60")
    /\ hist[4].role = "assistant" /\ hist[4].intent = "loan" /\ hist[4].score = 950

\* C35: when handle_turn raises, no message of the turn is stored (the history
\* is the one the request found) and the request ends with HTTP 500
C35_RaisedTurnStoresNothing ==
    [][/\ pc = "idle" /\ pc' = "route" => hist' = hist
       /\ pc' = "raised" => pc = "route" /\ hist' = hist
       /\ pc = "raised" => /\ hist' = hist
                           /\ pc' = "idle"
                           /\ resp' = [status |-> 500]
      ]_vars

C35_Witness ==
    /\ pc = "idle"
    /\ resp = [status |-> 500]
    /\ turns = 2
    /\ Len(hist) = 2

\* C36: no step of a turn writes the routes' metadata, and every turn that
\* resolves an intent leaves route_intent_node with the intent's full
\* required-slot list, in the order of the declaration, whatever earlier
\* turns removed from their pending lists
C36_RoutesAreNeverWritten ==
    [][/\ shared'.routes = [i \in Intents |-> RouteMetadata(i)]
       /\ \A c \in Sessions :
             (/\ calls[c].pc = "route"
              /\ calls'[c].pc = "parse"
              /\ calls'[c].state.intent \in Intents
              /\ Truthy(calls'[c].state.router_result.metadata))
             => calls'[c].state.pending_slots
                   = RouteMetadata(calls'[c].state.intent).required_slots
      ]_vars

C36_Witness ==
    /\ calls["A"].pc = "done"
    /\ calls["A"].state.intent = "loan"
    /\ calls["A"].state.pending_slots = <<>>
    /\ ~calls["A"].overlapped
    /\ calls["B"].pc = "parse"
    /\ ~calls["B"].overlapped
    /\ calls["B"].state.intent = "loan"
    /\ calls["B"].state.history = <<>>
    /\ calls["B"].state.pending_slots = <<"loan_type", "amount", "tenure">>

\* C37: recommend_card_tool never recommends a card whose min_income is above
\* the income: when some card is eligible the recommended card is the
\* preferred one if that is eligible and otherwise an eligible card of the
\* highest reward rate; when the income is below every minimum the data is
\* eligible = false with no card
C37_RecommendedCardIsEligible ==
    probe.handler = "cards_tool"
    => \A i \in 1..Len(probe.results) :
          LET data == probe.results[i].data
              income == probe.params.income
              preferred == probe.params.preferred_benefits
              eligible == {c \in {"travel", "cashback", "premium", "entry"} :
                              MinIncome(c) <= income}
          IN  IF eligible = {}
              THEN data = [eligible |-> FALSE, cards |-> <<>>]
              ELSE /\ "recommended_card" \in DOMAIN data
                   /\ data.recommended_card \in eligible
                   /\ MinIncome(data.recommended_card) <= income
                   /\ preferred \in eligible => data.recommended_card = preferred
                   /\ preferred \notin eligible
                      => \A c \in eligible :
                            RewardRate(c) <= RewardRate(data.recommended_card)

C37_Witness ==
    /\ probe.handler = "cards_tool"
    /\ probe.params = [income |-> 499999, preferred_benefits |-> "travel"]
    /\ Len(probe.results) = 2
    /\ probe.results[1].data.recommended_card = "cashback"

====
